---- MODULE Spec2Model ----
(***************************************************************************)
(* p2cli: the template execution and output-routing engine.                *)
(*                                                                         *)
(* The module models Entrypoint (pkg/entrypoint/entrypoint.go) from the    *)
(* point where the command line has been parsed and the input data         *)
(* decoded: loading of the templates, selection of the output strategy     *)
(* (PrepareOutput), the render loop, TemplateEngine.ExecuteTemplate and    *)
(* the FilterSet filters SetOwner, SetGroup and SetMode.                   *)
(*                                                                         *)
(* Go strings are TLA+ strings; the path functions of path/filepath are    *)
(* operators computed on them as the library computes them (unix rules).   *)
(***************************************************************************)
EXTENDS Integers, Sequences, FiniteSets, TLC

(***************************************************************************)
(* Bounds of the model.                                                    *)
(***************************************************************************)
\* the largest number of template files found under the template root
MaxTemplates == 2
\* the largest number of filter invocations made by the templates of a run
MaxFilterCalls == 2
\* the largest number of operating-system failures (an open, close, chdir,
\* chown, chmod or tar write that fails) during the render loop of a run
MaxFaults == 1

(***************************************************************************)
(* Program constants.                                                      *)
(***************************************************************************)
StdOutVal == "<stdout>"
OS_ALL_RWX == 511
TypeReg == "0"

(***************************************************************************)
(* strings                                                                 *)
(***************************************************************************)
\* the least i with s[i..] starting with sub, or 0 (strings.Index, 1-based)
Index(s, sub) ==
  LET hits == { i \in 1..(Len(s) - Len(sub) + 1) : SubSeq(s, i, i + Len(sub) - 1) = sub }
  IN IF hits = {} THEN 0 ELSE CHOOSE i \in hits : \A j \in hits : i <= j

\* the greatest i with s[i] = "/", or 0
LastSlash(s) ==
  LET hits == { i \in 1..Len(s) : SubSeq(s, i, i) = "/" }
  IN IF hits = {} THEN 0 ELSE CHOOSE i \in hits : \A j \in hits : i >= j

RECURSIVE ReplaceAll(_, _, _)
\* strings.ReplaceAll(s, old, new) for a non-empty old; s unchanged when old
\* and new are both empty (the only use of an empty old in the program)
ReplaceAll(s, old, new) ==
  IF old = "" THEN s
  ELSE LET i == Index(s, old)
       IN IF i = 0 THEN s
          ELSE SubSeq(s, 1, i - 1) \o new \o ReplaceAll(SubSeq(s, i + Len(old), Len(s)), old, new)

RECURSIVE SplitSlash(_)
\* strings.Split(s, "/")
SplitSlash(s) ==
  LET i == Index(s, "/")
  IN IF i = 0 THEN <<s>>
     ELSE <<SubSeq(s, 1, i - 1)>> \o SplitSlash(SubSeq(s, i + 1, Len(s)))

RECURSIVE JoinSlash(_)
\* strings.Join(elems, "/")
JoinSlash(elems) ==
  IF elems = <<>> THEN ""
  ELSE IF Len(elems) = 1 THEN elems[1]
  ELSE elems[1] \o "/" \o JoinSlash(Tail(elems))

RECURSIVE StripTrailingSlashes(_)
StripTrailingSlashes(s) ==
  IF Len(s) > 0 /\ SubSeq(s, Len(s), Len(s)) = "/"
  THEN StripTrailingSlashes(SubSeq(s, 1, Len(s) - 1))
  ELSE s

(***************************************************************************)
(* path/filepath (unix)                                                    *)
(***************************************************************************)
IsAbs(path) == Len(path) > 0 /\ SubSeq(path, 1, 1) = "/"

RECURSIVE CleanElems(_, _, _)
\* the element stack of filepath.Clean: "" and "." are dropped, ".." pops an
\* element, is dropped at the root, and is kept in a relative path
CleanElems(elems, out, rooted) ==
  IF elems = <<>> THEN out
  ELSE LET e == Head(elems)
           rest == Tail(elems)
       IN IF e = "" \/ e = "." THEN CleanElems(rest, out, rooted)
          ELSE IF e = ".."
               THEN IF Len(out) > 0 /\ out[Len(out)] /= ".."
                    THEN CleanElems(rest, SubSeq(out, 1, Len(out) - 1), rooted)
                    ELSE IF rooted THEN CleanElems(rest, out, rooted)
                    ELSE CleanElems(rest, Append(out, e), rooted)
               ELSE CleanElems(rest, Append(out, e), rooted)

Clean(path) ==
  IF path = "" THEN "."
  ELSE LET rooted == IsAbs(path)
           body == JoinSlash(CleanElems(SplitSlash(path), <<>>, rooted))
       IN IF rooted THEN "/" \o body
          ELSE IF body = "" THEN "." ELSE body

\* filepath.Join of two elements
Join(a, b) ==
  IF a /= "" THEN Clean(a \o "/" \o b)
  ELSE IF b /= "" THEN Clean(b)
  ELSE ""

Base(path) ==
  IF path = "" THEN "."
  ELSE LET p == StripTrailingSlashes(path)
           q == SubSeq(p, LastSlash(p) + 1, Len(p))
       IN IF q = "" THEN "/" ELSE q

Dir(path) == Clean(SubSeq(path, 1, LastSlash(path)))

\* the elements of a clean path ("." and "/" have none)
PathElems(clean) ==
  LET p == IF IsAbs(clean) THEN SubSeq(clean, 2, Len(clean)) ELSE clean
  IN IF p = "" \/ p = "." THEN <<>> ELSE SplitSlash(p)

RECURSIVE CommonPrefixLen(_, _)
CommonPrefixLen(a, b) ==
  IF a = <<>> \/ b = <<>> \/ Head(a) /= Head(b) THEN 0
  ELSE 1 + CommonPrefixLen(Tail(a), Tail(b))

\* filepath.Rel(basepath, targpath): [ok, path]
Rel(basepath, targpath) ==
  LET base == Clean(basepath)
      targ == Clean(targpath)
      be == PathElems(base)
      te == PathElems(targ)
      n == CommonPrefixLen(be, te)
      brest == SubSeq(be, n + 1, Len(be))
      trest == SubSeq(te, n + 1, Len(te))
      ups == [i \in 1..Len(brest) |-> ".."]
  IN IF targ = base THEN [ok |-> TRUE, path |-> "."]
     ELSE IF IsAbs(base) /= IsAbs(targ) THEN [ok |-> FALSE, path |-> ""]
     ELSE IF brest /= <<>> /\ Head(brest) = ".." THEN [ok |-> FALSE, path |-> ""]
     ELSE [ok |-> TRUE, path |-> JoinSlash(ups \o trest)]

\* filepath.Abs(path) in the working directory wd
Abs(wd, path) == IF IsAbs(path) THEN Clean(path) ELSE Join(wd, path)

\* transformFileName(relPath, options)
transformFileName(relPath, opts) ==
  LET filename == Base(relPath)
      transformedFileName == ReplaceAll(filename, opts.FilenameSubstrDel, "")
  IN Join(Dir(relPath), transformedFileName)

(***************************************************************************)
(* strconv                                                                 *)
(***************************************************************************)
Digits == <<"0", "1", "2", "3", "4", "5", "6", "7", "8", "9">>

\* the value of a digit character, or -1
DigitVal(c) ==
  LET hits == { i \in 1..Len(Digits) : Digits[i] = c }
  IN IF hits = {} THEN -1 ELSE (CHOOSE i \in hits : TRUE) - 1

RECURSIVE ParseDigits(_, _, _)
\* the digits of s in the base, most significant first: [ok, val]
ParseDigits(s, base, acc) ==
  IF s = "" THEN [ok |-> TRUE, val |-> acc]
  ELSE LET d == DigitVal(SubSeq(s, 1, 1))
       IN IF d < 0 \/ d >= base THEN [ok |-> FALSE, val |-> 0]
          ELSE ParseDigits(SubSeq(s, 2, Len(s)), base, acc * base + d)

\* strconv.ParseUint(s, base, 64) for the short strings of the model
ParseUint(s, base) ==
  IF s = "" THEN [ok |-> FALSE, val |-> 0] ELSE ParseDigits(s, base, 0)

\* strconv.ParseInt(s, 10, 64) for the short strings of the model
ParseInt(s) ==
  IF s = "" THEN [ok |-> FALSE, val |-> 0]
  ELSE IF SubSeq(s, 1, 1) = "-"
       THEN LET r == ParseUint(SubSeq(s, 2, Len(s)), 10)
            IN [ok |-> r.ok, val |-> 0 - r.val]
  ELSE IF SubSeq(s, 1, 1) = "+" THEN ParseUint(SubSeq(s, 2, Len(s)), 10)
  ELSE ParseUint(s, 10)

(***************************************************************************)
(* values handed to a filter by the evaluator (pongo2.Value)               *)
(***************************************************************************)
NoMap == [k \in {} |-> ""]
IntV(i) == [kind |-> "integer", i |-> i, s |-> "", m |-> NoMap]
StrV(str) == [kind |-> "string", i |-> 0, s |-> str, m |-> NoMap]
MapV(map) == [kind |-> "map", i |-> 0, s |-> "", m |-> map]
NilV == [kind |-> "nil", i |-> 0, s |-> "", m |-> NoMap]

IsInteger(v) == v.kind = "integer"
IsString(v) == v.kind = "string"

\* the inputs the templates of a run pipe into SetOwner, SetGroup and SetMode:
\* a name the user and group databases know and an octal mode string
FilterInputs == { StrV("app"), StrV("644") }

\* the user and group databases read by user.Lookup and user.LookupGroup
Users == [n \in {"app"} |-> [Uid |-> "1001"]]
Groups == [n \in {"app"} |-> [Gid |-> "1002"]]

(***************************************************************************)
(* the run's inputs                                                        *)
(***************************************************************************)
\* the working directory in which p2 is started
StartDir == "/work"

\* a clean absolute path and the directories above it
DirsOf(path) ==
  LET elems == PathElems(path)
  IN { "/" \o JoinSlash(SubSeq(elems, 1, k)) : k \in 0..Len(elems) }

\* the directories that are there when p2 is started
StartDirs == DirsOf(Join(StartDir, "out"))

\* the files below the template root, in the order filepath.Walk visits them
TemplateTree == <<"a", "a.t", "d/c">>

\* the files of TemplateTree at the positions in idx, in walk order
RECURSIVE WalkOrder(_, _)
WalkOrder(idx, from) ==
  IF from > Len(TemplateTree) THEN <<>>
  ELSE IF from \in idx THEN <<TemplateTree[from]>> \o WalkOrder(idx, from + 1)
  ELSE WalkOrder(idx, from + 1)

Trees == { WalkOrder(idx, 1) :
             idx \in { x \in SUBSET (1..Len(TemplateTree)) : Cardinality(x) <= MaxTemplates } }

TarFiles == {"", "-", "x.tar"}

\* the command lines that pass the checks on --directory-mode (the output path
\* is an existing directory, or --tar is given)
OptionSets ==
  { [DirectoryMode |-> TRUE, TemplateFile |-> "tpl", TarFile |-> "",
     OutputFile |-> "/srv/out", FilenameSubstrDel |-> d] : d \in {"", ".t"} }
  \cup
  { [DirectoryMode |-> TRUE, TemplateFile |-> "tpl", TarFile |-> "x.tar",
     OutputFile |-> o, FilenameSubstrDel |-> d] : o \in {"", "out"}, d \in {"", ".t"} }
  \cup
  { [DirectoryMode |-> FALSE, TemplateFile |-> "t.p2", TarFile |-> t,
     OutputFile |-> o, FilenameSubstrDel |-> ""] :
       t \in TarFiles, o \in {"", "-", "out.txt", "/srv/out.txt"} }

\* the decoded input data (a map of keys to values)
InputDatas == { "name" :> StrV("Sally"), "p2" :> StrV("mine") }

\* the text the evaluator writes for the templates of the model, "hi {{ name }}"
RenderText(context) ==
  "hi " \o (IF "name" \in DOMAIN context /\ IsString(context["name"])
            THEN context["name"].s ELSE "")

(***************************************************************************)
(* state                                                                   *)
(***************************************************************************)
VARIABLES
  options,     \* the parsed command line (Options)
  tree,        \* the template files below the template root, in walk order
  inputData,   \* the decoded input data
  pc,          \* the position of Entrypoint
  cwd,         \* the working directory of the process
  rootDir,     \* rootDir of Entrypoint
  templates,   \* templates: outputPath -> LoadedTemplate (its set's Globals)
  inputMaps,   \* inputMaps: outputPath -> template path
  walkSets,    \* the template sets made by the directory walk: outputPath -> Globals
  engine,      \* the output strategy of templateEngine.PrepareOutput
  filterSet,   \* the FilterSet shared by all renders
  todo,        \* the keys of templates the render loop has not reached yet
  cur,         \* the locals of the running ExecuteTemplate call
  ctx,         \* the context the evaluator renders the current template against
  headers,     \* the tar headers allocated by PrepareOutput, in order
  tarOpen,     \* the tar file opened by Entrypoint is open
  tarOut,      \* the entries written to the tar writer, in order
  openFiles,   \* the output files open for writing
  fsCalls,     \* the calls of os.Chown and os.Chmod made so far
  ret,         \* the last filter invocation and what it returned
  nCalls,      \* the number of filter invocations so far
  faults,      \* the number of operating-system failures so far
  calls,       \* the ExecuteTemplate calls that returned, in order
  failed,      \* failed of Entrypoint
  exit,        \* the status Entrypoint returned (-1: still running)
  env,         \* args.Env: the environment handed to Entrypoint
  stdin,       \* args.StdIn: the text on standard input
  disk,        \* the regular files of the filesystem: absolute path -> content
  dirs,        \* the directories of the filesystem: absolute paths
  filters,     \* the evaluator's filter registry, custom filters: name -> implementation
  inputSource, \* inputSource of Entrypoint
  fileFormat,  \* fileFormat of Entrypoint
  inputErr,    \* the error the input decoding returned
  pairs        \* the logical key/value pairs the input text was written from

vars == << options, tree, inputData, pc, cwd, rootDir, templates, inputMaps, walkSets,
           engine, filterSet, todo, cur, ctx, headers, tarOpen, tarOut, openFiles,
           fsCalls, ret, nCalls, faults, calls, failed, exit,
           env, stdin, disk, dirs, filters, inputSource, fileFormat, inputErr, pairs >>

\* what the start of Entrypoint works on: the environment, the input text, the
\* filter registry and the input decoding
launchVars == << env, stdin, disk, dirs, filters, inputSource, fileFormat, inputErr, pairs >>

\* err of Entrypoint (an EnvironmentVariablesError has a Reason and a RawEnvVar)
\* and the message logged with it
NoErr == [Reason |-> "", RawEnvVar |-> "", log |-> ""]

\* the start of Entrypoint is over and is not looked at
NoLaunch ==
  /\ env = [k \in {} |-> ""]
  /\ stdin = ""
  /\ disk = [k \in {} |-> ""]
  /\ dirs = StartDirs
  /\ filters = [k \in {} |-> ""]
  /\ inputSource = "SourceEnv"
  /\ fileFormat = "TypeEnv"
  /\ inputErr = NoErr
  /\ pairs = <<>>

NoCur == [outputPath |-> "", finalizer |-> "nil", origWorkDir |-> "", hdr |-> 0,
          buf |-> "", cwdBefore |-> ""]
NoRet == [filter |-> "none", input |-> NilV, target |-> "", val |-> "nil", err |-> ""]
OsFilterSet == [OutputFileName |-> "", Chown |-> [kind |-> "os", hdr |-> 0],
                Chmod |-> [kind |-> "os", hdr |-> 0]]

Init ==
  /\ NoLaunch
  /\ options \in OptionSets
  /\ tree \in (IF options.DirectoryMode THEN Trees ELSE {<<>>})
  /\ inputData \in InputDatas
  /\ pc = "load"
  /\ cwd = StartDir
  /\ rootDir = ""
  /\ templates = NoMap
  /\ inputMaps = NoMap
  /\ walkSets = NoMap
  /\ engine = "none"
  /\ filterSet = OsFilterSet
  /\ todo = {}
  /\ cur = NoCur
  /\ ctx = NoMap
  /\ headers = <<>>
  /\ tarOpen = FALSE
  /\ tarOut = <<>>
  /\ openFiles = {}
  /\ fsCalls = <<>>
  /\ ret = NoRet
  /\ nCalls = 0
  /\ faults = 0
  /\ calls = <<>>
  /\ failed = FALSE
  /\ exit = -1

(***************************************************************************)
(* loading the templates (Entrypoint, "Load all templates")                *)
(***************************************************************************)
\* the p2 variables the directory walk computes for one output path
WalkP2Ctx(root, outputPath) ==
  [k \in {"OutputPath", "OutputName", "OutputDir", "OutputRelPath", "OutputRelDir"} |->
     CASE k = "OutputPath" -> outputPath
       [] k = "OutputName" -> Base(outputPath)
       [] k = "OutputDir" -> Dir(outputPath)
       [] k = "OutputRelPath" -> Rel(root, outputPath).path
       [] k = "OutputRelDir" -> Rel(root, Dir(outputPath)).path]

\* the p2 variables of the single template
SingleP2Ctx(root) ==
  [k \in {"OutputPath", "OutputName", "OutputDir", "OutputRelPath", "OutputRelDir"} |->
     CASE k = "OutputPath" -> StdOutVal
       [] k = "OutputName" -> StdOutVal
       [] k = "OutputDir" -> root
       [] k = "OutputRelPath" -> StdOutVal
       [] k = "OutputRelDir" -> "."]

\* the output path the directory walk gives the file at relPath
WalkOutputPath(opts, wd, relPath) ==
  Abs(wd, Join(opts.OutputFile, transformFileName(relPath, opts)))

\* a template loaded by LoadTemplate: its path and the Globals of its own set
LoadTemplate(templatePath) == [path |-> templatePath, Globals |-> NoMap]

\* the callback of filepath.Walk for the file at path: the template is loaded
\* and stored under its output path, replacing an entry made before
WalkFile(acc, root, path, outputPath) ==
  [templates |-> (outputPath :> LoadTemplate(path)) @@ acc.templates,
   inputMaps |-> (outputPath :> path) @@ acc.inputMaps,
   walkSets |-> (outputPath :> ("p2" :> MapV(WalkP2Ctx(root, outputPath)))) @@ acc.walkSets]

RECURSIVE Walk(_, _, _, _, _)
\* filepath.Walk over the files, in order
Walk(files, opts, wd, root, acc) ==
  IF files = <<>> THEN acc
  ELSE Walk(Tail(files), opts, wd, root,
            WalkFile(acc, root, Join(opts.TemplateFile, Head(files)),
                     WalkOutputPath(opts, wd,
                       Rel(opts.TemplateFile, Join(opts.TemplateFile, Head(files))).path)))

\* outputPath of the single template
SingleOutputPath(opts, wd) ==
  IF opts.OutputFile /= "" THEN Abs(wd, opts.OutputFile) ELSE ""

\* rootDir of Entrypoint
RootDir(opts, wd) == Abs(wd, IF opts.DirectoryMode THEN opts.OutputFile ELSE wd)

\* the templates are loaded: every template of the walk, or the single template
LoadTemplates ==
  /\ UNCHANGED launchVars
  /\ pc = "load"
  /\ rootDir' = RootDir(options, cwd)
  /\ LET w == IF options.DirectoryMode
              THEN Walk(tree, options, cwd, rootDir',
                        [templates |-> NoMap, inputMaps |-> NoMap, walkSets |-> NoMap])
              ELSE [templates |-> (SingleOutputPath(options, cwd) :>
                                     [LoadTemplate(options.TemplateFile) EXCEPT
                                        !.Globals = ("p2" :> MapV(SingleP2Ctx(rootDir'))) @@ @]),
                    inputMaps |-> (SingleOutputPath(options, cwd) :> StdOutVal),
                    walkSets |-> walkSets]
     IN /\ templates' = w.templates
        /\ inputMaps' = w.inputMaps
        /\ walkSets' = w.walkSets
  /\ pc' = "configure"
  /\ UNCHANGED << options, tree, inputData, cwd, engine, filterSet, todo, cur, ctx, headers,
                  tarOpen, tarOut, openFiles, fsCalls, ret, nCalls, faults, calls, failed, exit >>

\* the working directory or the absolute path of rootDir cannot be determined,
\* the walk reports an error (also for its root), or a template cannot be
\* read or parsed: Entrypoint returns 1
LoadFails ==
  /\ UNCHANGED launchVars
  /\ pc = "load"
  /\ pc' = "exit"
  /\ exit' = 1
  /\ UNCHANGED << options, tree, inputData, cwd, rootDir, templates, inputMaps, walkSets,
                  engine, filterSet, todo, cur, ctx, headers, tarOpen, tarOut, openFiles,
                  fsCalls, ret, nCalls, faults, calls, failed >>

(***************************************************************************)
(* choosing the output strategy (Entrypoint, "Configure output path")      *)
(***************************************************************************)
\* the case of the switch that is taken
EngineOf(opts) ==
  IF opts.TarFile /= "" THEN "tar"
  ELSE IF opts.DirectoryMode THEN "dir"
  ELSE IF opts.OutputFile /= "-" /\ opts.OutputFile /= "" THEN "file"
  ELSE "stdout"

ConfigureOutput ==
  /\ UNCHANGED launchVars
  /\ pc = "configure"
  /\ engine' = EngineOf(options)
  /\ tarOpen' = (options.TarFile /= "" /\ options.TarFile /= "-")
  /\ todo' = DOMAIN templates
  /\ pc' = "loop"
  /\ UNCHANGED << options, tree, inputData, cwd, rootDir, templates, inputMaps, walkSets,
                  filterSet, cur, ctx, headers, tarOut, openFiles, fsCalls, ret, nCalls, faults,
                  calls, failed, exit >>

\* the tar file cannot be opened: Entrypoint returns 1
TarOpenFails ==
  /\ UNCHANGED launchVars
  /\ pc = "configure"
  /\ options.TarFile /= "" /\ options.TarFile /= "-"
  /\ pc' = "exit"
  /\ exit' = 1
  /\ UNCHANGED << options, tree, inputData, cwd, rootDir, templates, inputMaps, walkSets,
                  engine, filterSet, todo, cur, ctx, headers, tarOpen, tarOut, openFiles,
                  fsCalls, ret, nCalls, faults, calls, failed >>

(***************************************************************************)
(* failures of the operating system                                        *)
(***************************************************************************)
\* the outcomes of an operation of the operating system that can fail
MayFail == IF faults < MaxFaults THEN BOOLEAN ELSE {TRUE}

\* an operating-system failure is counted
Fault(happened) == faults' = IF happened THEN faults + 1 ELSE faults

(***************************************************************************)
(* TemplateEngine.ExecuteTemplate                                          *)
(***************************************************************************)
\* the context the evaluator renders against: the Globals of the template's
\* own set, updated with the context ExecuteTemplate passes (the input data)
ExecutionContext(tmpl, data) == data @@ tmpl.Globals

\* ReturnFrom with a render loop that keeps only the outcome of the last template
ReturnFromLastOnly(prepared, runs, err, wdAfter) ==
  /\ calls' = Append(calls, [outputPath |-> cur.outputPath, prepared |-> prepared,
                             finalizer |-> cur.finalizer, finalizerRuns |-> runs,
                             err |-> err, cwdBefore |-> cur.cwdBefore, cwdAfter |-> wdAfter])
  /\ failed' = (err /= "")
  /\ cur' = NoCur
  /\ ctx' = NoMap
  /\ pc' = "loop"

\* ExecuteTemplate returns err ("" for nil) to the render loop, which sets failed
ReturnFrom(prepared, runs, err, wdAfter) ==
  /\ calls' = Append(calls, [outputPath |-> cur.outputPath, prepared |-> prepared,
                             finalizer |-> cur.finalizer, finalizerRuns |-> runs,
                             err |-> err, cwdBefore |-> cur.cwdBefore, cwdAfter |-> wdAfter])
  /\ failed' = (failed \/ err /= "")
  /\ cur' = NoCur
  /\ ctx' = NoMap
  /\ pc' = "loop"

\* PrepareOutput returned an error for outputPath: ExecuteTemplate returns it
PrepareFailed(outputPath, wdAfter) ==
  /\ calls' = Append(calls, [outputPath |-> outputPath, prepared |-> FALSE,
                             finalizer |-> "nil", finalizerRuns |-> 0,
                             err |-> "prepare", cwdBefore |-> cwd, cwdAfter |-> wdAfter])
  /\ failed' = TRUE
  /\ UNCHANGED << cur, ctx, pc >>

\* StartRender that leaves the FilterSet pointing where it pointed
StartRenderStale(outputPath, finalizer, hdr, fs) ==
  /\ cur' = [outputPath |-> outputPath, finalizer |-> finalizer, origWorkDir |-> cwd,
             hdr |-> hdr, buf |-> "", cwdBefore |-> cwd]
  /\ ctx' = ExecutionContext(templates[outputPath], inputData)
  /\ filterSet' = fs
  /\ pc' = "render"
  /\ UNCHANGED << calls, failed >>

\* PrepareOutput succeeded: the context is built, the FilterSet is pointed at
\* outputPath, and the evaluator starts
StartRender(outputPath, finalizer, hdr, fs) ==
  /\ cur' = [outputPath |-> outputPath, finalizer |-> finalizer, origWorkDir |-> cwd,
             hdr |-> hdr, buf |-> "", cwdBefore |-> cwd]
  /\ ctx' = ExecutionContext(templates[outputPath], inputData)
  /\ filterSet' = [fs EXCEPT !.OutputFileName = outputPath]
  /\ pc' = "render"
  /\ UNCHANGED << calls, failed >>

\* NewHeader with the mode left at the zero value
NewHeaderZeroMode(opts, relPath) ==
  [Typeflag |-> TypeReg, Name |-> Join(opts.OutputFile, relPath), Size |-> 0,
   Mode |-> 0, Uid |-> 0, Gid |-> 0]

\* the header PrepareOutput sets up in tar mode
NewHeader(opts, relPath) ==
  [Typeflag |-> TypeReg, Name |-> Join(opts.OutputFile, relPath), Size |-> 0,
   Mode |-> OS_ALL_RWX, Uid |-> 0, Gid |-> 0]

\* the render loop reaches a template in tar mode
PrepareTar ==
  /\ UNCHANGED launchVars
  /\ pc = "loop" /\ engine = "tar"
  /\ \E outputPath \in todo :
       /\ todo' = todo \ {outputPath}
       /\ LET rel == Rel(rootDir, outputPath)
          IN IF ~rel.ok
             THEN /\ PrepareFailed(outputPath, cwd)
                  /\ UNCHANGED << headers, filterSet >>
             ELSE /\ headers' = Append(headers, NewHeader(options, rel.path))
                  /\ StartRender(outputPath, "tar", Len(headers) + 1,
                                 [filterSet EXCEPT
                                    !.Chown = [kind |-> "tar", hdr |-> Len(headers) + 1],
                                    !.Chmod = [kind |-> "tar", hdr |-> Len(headers) + 1]])
  /\ UNCHANGED << options, tree, inputData, cwd, rootDir, templates, inputMaps, walkSets,
                  engine, tarOpen, tarOut, openFiles, fsCalls, ret, nCalls, faults, exit >>

\* the render loop reaches a template in directory mode; step is how far
\* PrepareOutput gets: Getwd, Chdir or OpenFile fails, or all succeed
PrepareDir ==
  /\ UNCHANGED launchVars
  /\ pc = "loop" /\ engine = "dir"
  /\ \E outputPath \in todo,
        step \in {"ok"} \cup (IF faults < MaxFaults THEN {"getwd", "chdir", "open"} ELSE {}) :
       /\ todo' = todo \ {outputPath}
       /\ Fault(step /= "ok")
       /\ cwd' = IF step \in {"open", "ok"} THEN Dir(outputPath) ELSE cwd
       /\ IF step = "ok"
          THEN /\ openFiles' = openFiles \cup {outputPath}
               /\ StartRender(outputPath, "dir", 0, filterSet)
          ELSE /\ PrepareFailed(outputPath, cwd')
               /\ UNCHANGED << openFiles, filterSet >>
  /\ UNCHANGED << options, tree, inputData, rootDir, templates, inputMaps, walkSets,
                  engine, headers, tarOpen, tarOut, fsCalls, ret, nCalls, exit >>

\* the render loop reaches the template in single-file mode
PrepareFile ==
  /\ UNCHANGED launchVars
  /\ pc = "loop" /\ engine = "file"
  /\ \E outputPath \in todo, opened \in MayFail :
       /\ todo' = todo \ {outputPath}
       /\ Fault(~opened)
       /\ IF opened
          THEN /\ openFiles' = openFiles \cup {outputPath}
               /\ StartRender(outputPath, "file", 0, filterSet)
          ELSE /\ PrepareFailed(outputPath, cwd)
               /\ UNCHANGED << openFiles, filterSet >>
  /\ UNCHANGED << options, tree, inputData, cwd, rootDir, templates, inputMaps, walkSets,
                  engine, headers, tarOpen, tarOut, fsCalls, ret, nCalls, exit >>

\* the render loop reaches the template in stdout mode: no finalizer
PrepareStdout ==
  /\ UNCHANGED launchVars
  /\ pc = "loop" /\ engine = "stdout"
  /\ \E outputPath \in todo :
       /\ todo' = todo \ {outputPath}
       /\ StartRender(outputPath, "nil", 0, filterSet)
  /\ UNCHANGED << options, tree, inputData, cwd, rootDir, templates, inputMaps, walkSets,
                  engine, headers, tarOpen, tarOut, openFiles, fsCalls, ret, nCalls, faults, exit >>

(***************************************************************************)
(* FilterSet: SetOwner, SetGroup, SetMode                                  *)
(***************************************************************************)
\* the outcomes of a chown or chmod of the real file name (TRUE: it succeeds);
\* there is no file of the empty name
OsOutcomes(name) ==
  IF name = "" THEN {FALSE}
  ELSE IF faults < MaxFaults THEN BOOLEAN ELSE {TRUE}


\* os.Chown(name, uid, gid) on the real filesystem
OsChown(name, uid, gid) ==
  /\ fsCalls' = Append(fsCalls, [op |-> "chown", name |-> name, uid |-> uid, gid |-> gid,
                                 mode |-> 0])
  /\ headers' = headers

\* os.Chmod(name, mode) on the real filesystem
OsChmod(name, mode) ==
  /\ fsCalls' = Append(fsCalls, [op |-> "chmod", name |-> name, uid |-> -1, gid |-> -1,
                                 mode |-> mode])
  /\ headers' = headers

\* the Chown closure of tar mode, bound to the header hdr
TarChown(hdr, uid, gid) ==
  /\ headers' = [headers EXCEPT ![hdr] =
                   [@ EXCEPT !.Uid = IF uid /= -1 THEN uid ELSE @,
                             !.Gid = IF gid /= -1 THEN gid ELSE @]]
  /\ fsCalls' = fsCalls

\* a Chmod closure of tar mode that sets the mode of every header
TarChmodShared(hdr, mode) ==
  /\ headers' = [i \in DOMAIN headers |-> [headers[i] EXCEPT !.Mode = mode]]
  /\ fsCalls' = fsCalls

\* the Chmod closure of tar mode, bound to the header hdr
TarChmod(hdr, mode) ==
  /\ headers' = [headers EXCEPT ![hdr] = [@ EXCEPT !.Mode = mode]]
  /\ fsCalls' = fsCalls

\* fs.Chown(name, uid, gid): the injected function value is called
FsChown(name, uid, gid) ==
  IF filterSet.Chown.kind = "os" THEN OsChown(name, uid, gid)
  ELSE TarChown(filterSet.Chown.hdr, uid, gid)

\* fs.Chmod(name, mode): the injected function value is called
FsChmod(name, mode) ==
  IF filterSet.Chmod.kind = "os" THEN OsChmod(name, mode)
  ELSE TarChmod(filterSet.Chmod.hdr, mode)

\* what a filter returned: the value ("nil" or the empty string "") and the error
Returned(filter, in, val, err) ==
  /\ ret' = [filter |-> filter, input |-> in, target |-> filterSet.OutputFileName,
             val |-> val, err |-> err]
  /\ Fault(err \in {"chown", "chmod"} /\ filterSet.OutputFileName /= "")

\* the uid SetOwner resolves its input to: [err, id]
OwnerUid(in) ==
  IF IsInteger(in) THEN [err |-> "", id |-> in.i]
  ELSE IF IsString(in)
       THEN IF in.s \notin DOMAIN Users THEN [err |-> "lookup", id |-> 0]
            ELSE LET uidraw == ParseInt(Users[in.s].Uid)
                 IN IF ~uidraw.ok THEN [err |-> "convert", id |-> 0]
                    ELSE [err |-> "", id |-> uidraw.val]
  ELSE [err |-> "type", id |-> 0]

\* the gid SetGroup resolves its input to: [err, id]
GroupGid(in) ==
  IF IsInteger(in) THEN [err |-> "", id |-> in.i]
  ELSE IF IsString(in)
       THEN IF in.s \notin DOMAIN Groups THEN [err |-> "lookup", id |-> 0]
            ELSE LET gidraw == ParseInt(Groups[in.s].Gid)
                 IN IF ~gidraw.ok THEN [err |-> "convert", id |-> 0]
                    ELSE [err |-> "", id |-> gidraw.val]
  ELSE [err |-> "type", id |-> 0]

\* the mode SetMode resolves its input to: [err, mode]
ModeOf(in) ==
  IF ~IsString(in) THEN [err |-> "type", mode |-> 0]
  ELSE LET intmode == ParseUint(in.s, 8)
       IN IF ~intmode.ok THEN [err |-> "parse", mode |-> 0]
          ELSE [err |-> "", mode |-> intmode.val]

\* FilterSetOwner that hands the id to Chown as uid and as gid
FilterSetOwnerAndGroup(in) ==
  IF filterSet.OutputFileName = StdOutVal
  THEN Returned("SetOwner", in, "nil", "") /\ UNCHANGED << fsCalls, headers >>
  ELSE LET r == OwnerUid(in)
       IN IF r.err /= ""
          THEN Returned("SetOwner", in, "nil", r.err) /\ UNCHANGED << fsCalls, headers >>
          ELSE /\ FsChown(filterSet.OutputFileName, r.id, r.id)
               /\ \E ok \in (IF filterSet.Chown.kind = "os"
                             THEN OsOutcomes(filterSet.OutputFileName) ELSE {TRUE}) :
                    IF ok THEN Returned("SetOwner", in, "", "")
                    ELSE Returned("SetOwner", in, "nil", "chown")

\* FilterSet.FilterSetOwner(in, param)
FilterSetOwner(in) ==
  IF filterSet.OutputFileName = StdOutVal
  THEN Returned("SetOwner", in, "nil", "") /\ UNCHANGED << fsCalls, headers >>
  ELSE LET r == OwnerUid(in)
       IN IF r.err /= ""
          THEN Returned("SetOwner", in, "nil", r.err) /\ UNCHANGED << fsCalls, headers >>
          ELSE /\ FsChown(filterSet.OutputFileName, r.id, -1)
               /\ \E ok \in (IF filterSet.Chown.kind = "os"
                             THEN OsOutcomes(filterSet.OutputFileName) ELSE {TRUE}) :
                    IF ok THEN Returned("SetOwner", in, "", "")
                    ELSE Returned("SetOwner", in, "nil", "chown")

\* FilterSet.FilterSetGroup(in, param): os.Chown is called, not fs.Chown
FilterSetGroup(in) ==
  IF filterSet.OutputFileName = StdOutVal
  THEN Returned("SetGroup", in, "nil", "") /\ UNCHANGED << fsCalls, headers >>
  ELSE LET r == GroupGid(in)
       IN IF r.err /= ""
          THEN Returned("SetGroup", in, "nil", r.err) /\ UNCHANGED << fsCalls, headers >>
          ELSE /\ OsChown(filterSet.OutputFileName, -1, r.id)
               /\ \E ok \in OsOutcomes(filterSet.OutputFileName) :
                    IF ok THEN Returned("SetGroup", in, "", "")
                    ELSE Returned("SetGroup", in, "nil", "chown")

\* FilterSetMode without the check of the stdout sentinel
FilterSetModeUnguarded(in) ==
  LET r == ModeOf(in)
  IN IF r.err /= ""
     THEN Returned("SetMode", in, "nil", r.err) /\ UNCHANGED << fsCalls, headers >>
     ELSE /\ FsChmod(filterSet.OutputFileName, r.mode)
          /\ \E ok \in (IF filterSet.Chmod.kind = "os"
                        THEN OsOutcomes(filterSet.OutputFileName) ELSE {TRUE}) :
               IF ok THEN Returned("SetMode", in, "", "")
               ELSE Returned("SetMode", in, "nil", "chmod")

\* FilterSet.FilterSetMode(in, param)
FilterSetMode(in) ==
  IF filterSet.OutputFileName = StdOutVal
  THEN Returned("SetMode", in, "nil", "") /\ UNCHANGED << fsCalls, headers >>
  ELSE LET r == ModeOf(in)
       IN IF r.err /= ""
          THEN Returned("SetMode", in, "nil", r.err) /\ UNCHANGED << fsCalls, headers >>
          ELSE /\ FsChmod(filterSet.OutputFileName, r.mode)
               /\ \E ok \in (IF filterSet.Chmod.kind = "os"
                             THEN OsOutcomes(filterSet.OutputFileName) ELSE {TRUE}) :
                    IF ok THEN Returned("SetMode", in, "", "")
                    ELSE Returned("SetMode", in, "nil", "chmod")

(***************************************************************************)
(* the render (tmpl.Template.ExecuteWriter) and the finalizers             *)
(***************************************************************************)
\* after a filter returned: its error ends the render and ExecuteTemplate
\* returns it without calling the finalizer
AfterFilter ==
  /\ nCalls' = nCalls + 1
  /\ IF ret'.err /= ""
     THEN ReturnFrom(TRUE, 0, "render", cwd)
     ELSE UNCHANGED << pc, cur, ctx, calls, failed >>
  /\ UNCHANGED << options, tree, inputData, cwd, rootDir, templates, inputMaps, walkSets,
                  engine, filterSet, todo, tarOpen, tarOut, openFiles, exit >>

\* the template being rendered pipes a value into SetOwner
CallSetOwner ==
  /\ UNCHANGED launchVars
  /\ pc = "render" /\ nCalls < MaxFilterCalls
  /\ \E in \in FilterInputs : FilterSetOwner(in)
  /\ AfterFilter

\* the template being rendered pipes a value into SetGroup
CallSetGroup ==
  /\ UNCHANGED launchVars
  /\ pc = "render" /\ nCalls < MaxFilterCalls
  /\ \E in \in FilterInputs : FilterSetGroup(in)
  /\ AfterFilter

\* the template being rendered pipes a value into SetMode
CallSetMode ==
  /\ UNCHANGED launchVars
  /\ pc = "render" /\ nCalls < MaxFilterCalls
  /\ \E in \in FilterInputs : FilterSetMode(in)
  /\ AfterFilter

\* the evaluator fails (an evaluation error): ExecuteTemplate returns the
\* error without calling the finalizer
RenderFails ==
  /\ UNCHANGED launchVars
  /\ pc = "render"
  /\ ReturnFrom(TRUE, 0, "render", cwd)
  /\ UNCHANGED << options, tree, inputData, cwd, rootDir, templates, inputMaps, walkSets,
                  engine, filterSet, todo, headers, tarOpen, tarOut, openFiles, fsCalls,
                  ret, nCalls, faults, exit >>

\* RenderSucceeds with the finalizers put off: ExecuteTemplate returns to the
\* render loop as soon as the evaluator is done
RenderSucceedsDeferred ==
  /\ UNCHANGED launchVars
  /\ pc = "render"
  /\ ReturnFrom(TRUE, 0, "", cwd)
  /\ UNCHANGED << options, tree, inputData, cwd, rootDir, templates, inputMaps, walkSets,
                  engine, filterSet, todo, headers, tarOpen, tarOut, openFiles, fsCalls,
                  ret, nCalls, faults, exit >>

\* the evaluator succeeds and its output is written to the writer
RenderSucceeds ==
  /\ UNCHANGED launchVars
  /\ pc = "render"
  /\ IF cur.finalizer = "nil"
     THEN ReturnFrom(TRUE, 0, "", cwd)
     ELSE /\ cur' = [cur EXCEPT !.buf = RenderText(ctx)]
          /\ pc' = "finalize"
          /\ UNCHANGED << ctx, calls, failed >>
  /\ UNCHANGED << options, tree, inputData, cwd, rootDir, templates, inputMaps, walkSets,
                  engine, filterSet, todo, headers, tarOpen, tarOut, openFiles, fsCalls,
                  ret, nCalls, faults, exit >>

\* the tar writer keeps the first error of a write (tw.err) and returns it
\* from every later WriteHeader and Write; in tar mode a finalizer fails for
\* no other reason
TarWriterFailed == \E i \in 1..Len(calls) : calls[i].err = "finalizer"

\* how far a finalizer of tar mode gets: WriteHeader or Write fails, or both
\* succeed
TarSteps ==
  IF TarWriterFailed THEN {"header"}
  ELSE {"ok"} \cup (IF faults < MaxFaults THEN {"header", "body"} ELSE {})

\* the finalizer of tar mode without header.Size = int64(buf.Len())
FinalizeTarSizeUnset ==
  /\ UNCHANGED launchVars
  /\ pc = "finalize" /\ cur.finalizer = "tar"
  /\ headers' = headers
  /\ \E step \in TarSteps :
       /\ Fault(step /= "ok" /\ ~TarWriterFailed)
       /\ tarOut' = IF step = "header" THEN tarOut
                    ELSE Append(tarOut, [header |-> headers'[cur.hdr],
                                         body |-> IF step = "ok" THEN cur.buf ELSE "",
                                         complete |-> step = "ok"])
       /\ ReturnFrom(TRUE, 1, IF step = "ok" THEN "" ELSE "finalizer", cwd)
  /\ UNCHANGED << options, tree, inputData, cwd, rootDir, templates, inputMaps, walkSets,
                  engine, filterSet, todo, tarOpen, openFiles, fsCalls, ret, nCalls, exit >>

\* the finalizer of tar mode
FinalizeTar ==
  /\ UNCHANGED launchVars
  /\ pc = "finalize" /\ cur.finalizer = "tar"
  /\ headers' = [headers EXCEPT ![cur.hdr] = [@ EXCEPT !.Size = Len(cur.buf)]]
  /\ \E step \in TarSteps :
       /\ Fault(step /= "ok" /\ ~TarWriterFailed)
       /\ tarOut' = IF step = "header" THEN tarOut
                    ELSE Append(tarOut, [header |-> headers'[cur.hdr],
                                         body |-> IF step = "ok" THEN cur.buf ELSE "",
                                         complete |-> step = "ok"])
       /\ ReturnFrom(TRUE, 1, IF step = "ok" THEN "" ELSE "finalizer", cwd)
  /\ UNCHANGED << options, tree, inputData, cwd, rootDir, templates, inputMaps, walkSets,
                  engine, filterSet, todo, tarOpen, openFiles, fsCalls, ret, nCalls, exit >>

\* the finalizer of directory mode; step is how far it gets: Chdir back or
\* Close fails, or both succeed
FinalizeDir ==
  /\ UNCHANGED launchVars
  /\ pc = "finalize" /\ cur.finalizer = "dir"
  /\ \E step \in {"ok"} \cup (IF faults < MaxFaults THEN {"chdir", "close"} ELSE {}) :
       /\ Fault(step /= "ok")
       /\ cwd' = IF step = "chdir" THEN cwd ELSE cur.origWorkDir
       /\ openFiles' = IF step = "chdir" THEN openFiles ELSE openFiles \ {cur.outputPath}
       /\ ReturnFrom(TRUE, 1, IF step = "ok" THEN "" ELSE "finalizer", cwd')
  /\ UNCHANGED << options, tree, inputData, rootDir, templates, inputMaps, walkSets,
                  engine, filterSet, todo, headers, tarOpen, tarOut, fsCalls, ret, nCalls,
                  exit >>

\* the finalizer of single-file mode: Close succeeds or fails
FinalizeFile ==
  /\ UNCHANGED launchVars
  /\ pc = "finalize" /\ cur.finalizer = "file"
  /\ \E closed \in MayFail :
       /\ Fault(~closed)
       /\ openFiles' = openFiles \ {cur.outputPath}
       /\ ReturnFrom(TRUE, 1, IF closed THEN "" ELSE "finalizer", cwd)
  /\ UNCHANGED << options, tree, inputData, cwd, rootDir, templates, inputMaps, walkSets,
                  engine, filterSet, todo, headers, tarOpen, tarOut, fsCalls, ret, nCalls,
                  exit >>

(***************************************************************************)
(* the end of the render loop                                              *)
(***************************************************************************)
\* Finish with a render loop that stops at the first template that fails
FinishFailFast ==
  /\ UNCHANGED launchVars
  /\ pc = "loop" /\ (todo = {} \/ failed)
  /\ exit' = IF failed THEN 1 ELSE 0
  /\ pc' = "exit"
  /\ UNCHANGED << options, tree, inputData, cwd, rootDir, templates, inputMaps, walkSets,
                  engine, filterSet, todo, cur, ctx, headers, tarOpen, tarOut, openFiles,
                  fsCalls, ret, nCalls, faults, calls, failed >>

\* every template has been reached: Entrypoint returns 1 if failed, else 0
Finish ==
  /\ UNCHANGED launchVars
  /\ pc = "loop" /\ todo = {}
  /\ exit' = IF failed THEN 1 ELSE 0
  /\ pc' = "exit"
  /\ UNCHANGED << options, tree, inputData, cwd, rootDir, templates, inputMaps, walkSets,
                  engine, filterSet, todo, cur, ctx, headers, tarOpen, tarOut, openFiles,
                  fsCalls, ret, nCalls, faults, calls, failed >>

(***************************************************************************)
(* the FilterSet on its own: a caller points it at any target and invokes  *)
(* the filters with any input                                              *)
(***************************************************************************)
\* the targets a caller points the FilterSet at
UnitTargets == { StdOutVal, "", "/work/out.txt" }

\* the inputs the evaluator can hand to a filter: also a numeric id, a value
\* that is neither a string nor an integer, and a name no database knows
UnitInputs == FilterInputs \cup { IntV(1000), NilV, StrV("ghost") }

FilterInit ==
  /\ NoLaunch
  /\ options \in { o \in OptionSets : ~o.DirectoryMode /\ o.TarFile = "" /\ o.OutputFile = "" }
  /\ tree = <<>>
  /\ inputData = NoMap
  /\ pc = "unit"
  /\ cwd = StartDir
  /\ rootDir = ""
  /\ templates = NoMap
  /\ inputMaps = NoMap
  /\ walkSets = NoMap
  /\ engine = "none"
  /\ headers = << NewHeader(options, "out.txt") >>
  /\ filterSet \in { [OutputFileName |-> t, Chown |-> c, Chmod |-> c] :
                       t \in UnitTargets,
                       c \in { [kind |-> "os", hdr |-> 0], [kind |-> "tar", hdr |-> 1] } }
  /\ todo = {}
  /\ cur = NoCur
  /\ ctx = NoMap
  /\ tarOpen = FALSE
  /\ tarOut = <<>>
  /\ openFiles = {}
  /\ fsCalls = <<>>
  /\ ret = NoRet
  /\ nCalls = 0
  /\ faults = 0
  /\ calls = <<>>
  /\ failed = FALSE
  /\ exit = -1

\* what a filter invocation leaves alone
UnitFrame ==
  /\ nCalls' = nCalls + 1
  /\ UNCHANGED << options, tree, inputData, pc, cwd, rootDir, templates, inputMaps, walkSets,
                  engine, filterSet, todo, cur, ctx, tarOpen, tarOut, openFiles, calls,
                  failed, exit >>

UnitSetOwner ==
  /\ UNCHANGED launchVars
  /\ pc = "unit" /\ nCalls < MaxFilterCalls
  /\ \E in \in UnitInputs : FilterSetOwner(in)
  /\ UnitFrame

UnitSetGroup ==
  /\ UNCHANGED launchVars
  /\ pc = "unit" /\ nCalls < MaxFilterCalls
  /\ \E in \in UnitInputs : FilterSetGroup(in)
  /\ UnitFrame

UnitSetMode ==
  /\ UNCHANGED launchVars
  /\ pc = "unit" /\ nCalls < MaxFilterCalls
  /\ \E in \in UnitInputs : FilterSetMode(in)
  /\ UnitFrame

\* the caller points the FilterSet at another target
UnitRetarget ==
  /\ UNCHANGED launchVars
  /\ pc = "unit"
  /\ \E t \in UnitTargets \ {filterSet.OutputFileName} :
       filterSet' = [filterSet EXCEPT !.OutputFileName = t]
  /\ UNCHANGED << options, tree, inputData, pc, cwd, rootDir, templates, inputMaps, walkSets,
                  engine, todo, cur, ctx, headers, tarOpen, tarOut, openFiles, fsCalls, ret,
                  nCalls, faults, calls, failed, exit >>

FilterNext == UnitSetOwner \/ UnitSetGroup \/ UnitSetMode \/ UnitRetarget

FilterSpec == FilterInit /\ [][FilterNext]_vars

Next ==
  \/ LoadTemplates \/ LoadFails
  \/ ConfigureOutput \/ TarOpenFails
  \/ PrepareTar \/ PrepareDir \/ PrepareFile \/ PrepareStdout
  \/ CallSetOwner \/ CallSetGroup \/ CallSetMode
  \/ RenderFails \/ RenderSucceeds
  \/ FinalizeTar \/ FinalizeDir \/ FinalizeFile
  \/ Finish

Spec == Init /\ [][Next]_vars

(***************************************************************************)
(* text: strings.SplitN, bufio.Scanner, shellquote.Split, strconv.Itoa     *)
(***************************************************************************)
\* strings.SplitN(s, sep, 2)
SplitN2(s, sep) ==
  LET i == Index(s, sep)
  IN IF i = 0 THEN << s >>
     ELSE << SubSeq(s, 1, i - 1), SubSeq(s, i + Len(sep), Len(s)) >>

RECURSIVE ScanLines(_)
\* the tokens of a bufio.Scanner with the default split function: the lines
\* of the text without their line ends, no token after a final line end
ScanLines(text) ==
  IF text = "" THEN <<>>
  ELSE LET i == Index(text, "\n")
           DropCR(l) == IF l /= "" /\ SubSeq(l, Len(l), Len(l)) = "\r"
                        THEN SubSeq(l, 1, Len(l) - 1) ELSE l
       IN IF i = 0 THEN << DropCR(text) >>
          ELSE << DropCR(SubSeq(text, 1, i - 1)) >> \o ScanLines(SubSeq(text, i + 1, Len(text)))

RECURSIVE ShellWords(_, _, _, _, _)
\* shellquote.Split from the mode ("raw", "single" or "double"), with the word
\* begun so far (inWord) and the words found: [ok, words]; for text without
\* backquotes and without escaped line ends
ShellWords(s, mode, word, inWord, words) ==
  IF s = ""
  THEN IF mode /= "raw" THEN [ok |-> FALSE, words |-> <<>>]
       ELSE [ok |-> TRUE, words |-> IF inWord THEN Append(words, word) ELSE words]
  ELSE LET c == SubSeq(s, 1, 1)
           rest == SubSeq(s, 2, Len(s))
       IN CASE mode = "raw" /\ c \in {" ", "\t", "\n"} ->
                 ShellWords(rest, "raw", "", FALSE, IF inWord THEN Append(words, word) ELSE words)
            [] mode = "raw" /\ c = "'" -> ShellWords(rest, "single", word, TRUE, words)
            [] mode = "raw" /\ c = "\"" -> ShellWords(rest, "double", word, TRUE, words)
            [] mode = "raw" /\ c = "\\" ->
                 IF rest = "" THEN [ok |-> FALSE, words |-> <<>>]
                 ELSE ShellWords(SubSeq(rest, 2, Len(rest)), "raw",
                                 word \o SubSeq(rest, 1, 1), TRUE, words)
            [] mode = "single" /\ c = "'" -> ShellWords(rest, "raw", word, TRUE, words)
            [] mode = "double" /\ c = "\"" -> ShellWords(rest, "raw", word, TRUE, words)
            [] mode = "double" /\ c = "\\" /\ rest /= ""
                 /\ SubSeq(rest, 1, 1) \in {"$", "\"", "\\"} ->
                 ShellWords(SubSeq(rest, 2, Len(rest)), "double",
                            word \o SubSeq(rest, 1, 1), TRUE, words)
            [] OTHER -> ShellWords(rest, mode, word \o c, TRUE, words)

\* shellquote.Split(input): the words of a line of shell text, or an error
\* for a quote or escape that is not closed
ShellSplit(input) == ShellWords(input, "raw", "", FALSE, <<>>)

RECURSIVE Itoa(_)
\* strconv.Itoa for the small integers of the model
Itoa(n) ==
  IF n < 0 THEN "-" \o Itoa(0 - n)
  ELSE IF n < 10 THEN Digits[n + 1]
  ELSE Itoa(n \div 10) \o Digits[(n % 10) + 1]

\* strings.Repeat(" ", n) for n >= 0
RECURSIVE Spaces(_)
Spaces(n) == IF n <= 0 THEN "" ELSE " " \o Spaces(n - 1)

(***************************************************************************)
(* the input decoders                                                      *)
(***************************************************************************)
\* a float64, as encoding/json decodes every number (whole numbers only here)
FloatV(i) == [kind |-> "float", i |-> i, s |-> "", m |-> NoMap]

\* pongo2 Value.String(): what {{ v }} writes
ValueString(v) ==
  CASE v.kind = "string" -> v.s
    [] v.kind = "integer" -> Itoa(v.i)
    [] v.kind = "float" -> Itoa(v.i) \o ".000000"
    [] OTHER -> ""

RECURSIVE EnvLines(_, _)
\* the loop over the scanned lines of env-format input: [status, err, data],
\* status "panic" for the index out of range of values[0]
EnvLines(lines, data) ==
  IF lines = <<>> THEN [status |-> "ok", err |-> NoErr, data |-> data]
  ELSE LET keyval == Head(lines)
           splitKeyVal == SplitN2(keyval, "=")
           Failed(reason) == [status |-> "error",
                              err |-> [Reason |-> reason, RawEnvVar |-> keyval, log |-> ""],
                              data |-> data]
       IN IF Len(splitKeyVal) /= 2
          THEN Failed("Could not find an equals value to split on")
          ELSE LET values == ShellSplit(splitKeyVal[2])
               IN IF ~values.ok THEN Failed("shellquote")
                  ELSE IF Len(values.words) > 1
                  THEN Failed("Improperly escaped environment variable. p2 does not parse arrays.")
                  ELSE IF Len(values.words) = 0
                  THEN [status |-> "panic", err |-> NoErr, data |-> data]
                  ELSE EnvLines(Tail(lines),
                                (splitKeyVal[1] :> StrV(values.words[1])) @@ data)

\* the decoding of env-format text read from a file, stdin or an environment key
DecodeEnv(rawInput) == EnvLines(ScanLines(rawInput), NoMap)

\* a scalar of the JSON texts of the model: a string in double quotes without
\* escapes, or a whole number: [ok, val]
JsonScalar(t) ==
  IF Len(t) >= 2 /\ SubSeq(t, 1, 1) = "\"" /\ SubSeq(t, Len(t), Len(t)) = "\""
  THEN [ok |-> Index(SubSeq(t, 2, Len(t) - 1), "\"") = 0,
        val |-> StrV(SubSeq(t, 2, Len(t) - 1))]
  ELSE LET n == ParseInt(t)
       IN [ok |-> n.ok /\ SubSeq(t, 1, 1) /= "+", val |-> FloatV(n.val)]

RECURSIVE JsonMembers(_, _)
\* the members "key":value,... of a JSON object without nesting and without
\* white space: [ok, data]; a text that is not valid JSON stores nothing
JsonMembers(t, data) ==
  LET i == Index(t, ",")
      member == IF i = 0 THEN t ELSE SubSeq(t, 1, i - 1)
      c == Index(member, ":")
      key == JsonScalar(SubSeq(member, 1, c - 1))
      val == JsonScalar(SubSeq(member, c + 1, Len(member)))
  IN IF c = 0 \/ ~key.ok \/ key.val.kind /= "string" \/ ~val.ok
     THEN [ok |-> FALSE, data |-> NoMap]
     ELSE IF i = 0 THEN [ok |-> TRUE, data |-> (key.val.s :> val.val) @@ data]
     ELSE JsonMembers(SubSeq(t, i + 1, Len(t)), (key.val.s :> val.val) @@ data)

\* json.Unmarshal(rawInput, &inputData) for the JSON texts of the model
DecodeJson(rawInput) ==
  IF Len(rawInput) < 2 \/ SubSeq(rawInput, 1, 1) /= "{"
     \/ SubSeq(rawInput, Len(rawInput), Len(rawInput)) /= "}"
  THEN [ok |-> FALSE, data |-> NoMap]
  ELSE IF rawInput = "{}" THEN [ok |-> TRUE, data |-> NoMap]
  ELSE JsonMembers(SubSeq(rawInput, 2, Len(rawInput) - 1), NoMap)

\* a scalar of the YAML texts of the model: a whole number, a quoted string or
\* a plain string
YamlScalar(t) ==
  IF Len(t) >= 2 /\ SubSeq(t, 1, 1) = "\"" /\ SubSeq(t, Len(t), Len(t)) = "\""
  THEN StrV(SubSeq(t, 2, Len(t) - 1))
  ELSE LET n == ParseInt(t)
       IN IF n.ok THEN IntV(n.val) ELSE StrV(t)

RECURSIVE YamlFlow(_, _)
\* the members key:value,... of a flow mapping {...} without nesting (every
\* JSON object of the model is one): inside a flow mapping ':' ends the key
\* whatever follows it: [ok, data]
YamlFlow(t, data) ==
  LET i == Index(t, ",")
      member == IF i = 0 THEN t ELSE SubSeq(t, 1, i - 1)
      c == Index(member, ":")
      Trim(x) == IF x /= "" /\ SubSeq(x, 1, 1) = " " THEN SubSeq(x, 2, Len(x)) ELSE x
      k == Trim(SubSeq(member, 1, c - 1))
      key == IF YamlScalar(k).kind = "string" THEN YamlScalar(k).s ELSE k
      val == YamlScalar(Trim(SubSeq(member, c + 1, Len(member))))
  IN IF c = 0 \/ key = "" THEN [ok |-> FALSE, data |-> NoMap]
     ELSE IF i = 0 THEN [ok |-> TRUE, data |-> (key :> val) @@ data]
     ELSE YamlFlow(SubSeq(t, i + 1, Len(t)), (key :> val) @@ data)

RECURSIVE YamlLines(_, _)
\* the lines of a YAML document that is a mapping without nesting: block
\* lines "key: value", or one flow mapping {...}; blank lines are skipped and
\* a document without content decodes to nothing. A document that does not
\* parse, or whose root is no mapping, stores nothing: [ok, data]
YamlLines(lines, data) ==
  IF lines = <<>> THEN [ok |-> TRUE, data |-> data]
  ELSE LET line == Head(lines)
           kv == SplitN2(line, ": ")
           Blank(ls) == \A j \in 1..Len(ls) : ls[j] = ""
       IN IF line = "" THEN YamlLines(Tail(lines), data)
          ELSE IF Len(line) >= 2 /\ SubSeq(line, 1, 1) = "{" /\ SubSeq(line, Len(line), Len(line)) = "}"
          THEN IF data /= NoMap \/ ~Blank(Tail(lines)) THEN [ok |-> FALSE, data |-> NoMap]
               ELSE IF line = "{}" THEN [ok |-> TRUE, data |-> NoMap]
               ELSE YamlFlow(SubSeq(line, 2, Len(line) - 1), NoMap)
          ELSE IF Len(kv) /= 2 \/ kv[1] = "" THEN [ok |-> FALSE, data |-> NoMap]
          ELSE YamlLines(Tail(lines), (kv[1] :> YamlScalar(kv[2])) @@ data)

\* yaml.Unmarshal(rawInput, &inputData) for the YAML texts of the model
DecodeYaml(rawInput) == YamlLines(ScanLines(rawInput), NoMap)

(***************************************************************************)
(* the writers of input text: the same key/value pairs in each format      *)
(***************************************************************************)
RECURSIVE EnvDoc(_)
\* the pairs as env-lines: key='value' for a string, key=number for a number
EnvDoc(kvs) ==
  IF kvs = <<>> THEN ""
  ELSE LET kv == Head(kvs)
       IN kv[1] \o "=" \o (IF IsString(kv[2]) THEN "'" \o kv[2].s \o "'" ELSE Itoa(kv[2].i))
          \o "\n" \o EnvDoc(Tail(kvs))

RECURSIVE JsonDocMembers(_)
JsonDocMembers(kvs) ==
  IF kvs = <<>> THEN ""
  ELSE LET kv == Head(kvs)
       IN "\"" \o kv[1] \o "\":"
          \o (IF IsString(kv[2]) THEN "\"" \o kv[2].s \o "\"" ELSE Itoa(kv[2].i))
          \o (IF Tail(kvs) = <<>> THEN "" ELSE "," \o JsonDocMembers(Tail(kvs)))

\* the pairs as a JSON object
JsonDoc(kvs) == "{" \o JsonDocMembers(kvs) \o "}"

RECURSIVE YamlDoc(_)
\* the pairs as a YAML mapping; a string that reads as a number is quoted
YamlDoc(kvs) ==
  IF kvs = <<>> THEN ""
  ELSE LET kv == Head(kvs)
       IN kv[1] \o ": "
          \o (IF IsString(kv[2])
              THEN (IF ParseInt(kv[2].s).ok THEN "\"" \o kv[2].s \o "\"" ELSE kv[2].s)
              ELSE Itoa(kv[2].i))
          \o "\n" \o YamlDoc(Tail(kvs))

\* the pairs written in the format
Doc(format, kvs) ==
  CASE format = "TypeEnv" -> EnvDoc(kvs)
    [] format = "TypeJSON" -> JsonDoc(kvs)
    [] format = "TypeYAML" -> YamlDoc(kvs)

(***************************************************************************)
(* the start of Entrypoint: environment, custom filters, input data        *)
(***************************************************************************)
FormatAuto == "auto"

dataFormats ==
  ("json" :> "TypeJSON") @@ ("yaml" :> "TypeYAML") @@ ("yml" :> "TypeYAML") @@ ("env" :> "TypeEnv")

\* the characters of reIdentifiers, ^[a-zA-Z0-9_]+$
IdentifierChars ==
  LET cs == "abcdefghijklmnopqrstuvwxyzABCDEFGHIJKLMNOPQRSTUVWXYZ0123456789_"
  IN { SubSeq(cs, i, i) : i \in 1..Len(cs) }

\* reIdentifiers.MatchString(key)
MatchIdentifier(key) ==
  /\ key /= ""
  /\ \A i \in 1..Len(key) : SubSeq(key, i, i) \in IdentifierChars

\* an environment that is left as it is
OmitNothing(e) == e

\* lo.OmitBy(args.Env, key does not match reIdentifiers)
OmitInvalid(e) == [k \in { x \in DOMAIN e : MatchIdentifier(x) } |-> e[k]]

RECURSIVE Split(_, _)
\* strings.Split(s, sep) for a separator that is not empty
Split(s, sep) ==
  LET i == Index(s, sep)
  IN IF i = 0 THEN << s >>
     ELSE << SubSeq(s, 1, i - 1) >> \o Split(SubSeq(s, i + Len(sep), Len(s)), sep)

\* strings.TrimLeft(path.Ext(name), "."): the text after the last dot of the
\* last path element
ExtWithoutDot(name) ==
  LET b == SubSeq(name, LastSlash(name) + 1, Len(name))
      dots == { i \in 1..Len(b) : SubSeq(b, i, i) = "." }
  IN IF dots = {} THEN ""
     ELSE SubSeq(b, (CHOOSE i \in dots : \A j \in dots : i >= j) + 1, Len(b))

\* the custom filters p2 implements: name -> CustomFilterSpec
customFilters ==
  ("write_file" :> [FilterFunc |-> "filterWriteFile", NoopFunc |-> "filterNoopPassthru"])
  @@ ("make_dirs" :> [FilterFunc |-> "filterMakeDirs", NoopFunc |-> "filterNoopPassthru"])

\* pongo2.RegisterFilter(name, fn): a name that is registered keeps its function
RegisterFilter(reg, name, fn) ==
  IF name \in DOMAIN reg THEN reg ELSE (name :> fn) @@ reg

RECURSIVE RegisterNamed(_, _)
\* the loop over the names of --enable-filters: [ok, filters]
RegisterNamed(names, reg) ==
  IF names = <<>> THEN [ok |-> TRUE, filters |-> reg]
  ELSE IF Head(names) \notin DOMAIN customFilters THEN [ok |-> FALSE, filters |-> reg]
  ELSE RegisterNamed(Tail(names),
                     RegisterFilter(reg, Head(names), customFilters[Head(names)].FilterFunc))

\* a registration where the names of --enable-filters go first
RegisterNamedFirst(opts) ==
  IF opts.CustomFilters /= ""
  THEN RegisterNamed(Split(opts.CustomFilters, ","), NoMap)
  ELSE IF opts.CustomFilterNoops
  THEN [ok |-> TRUE,
        filters |-> [n \in DOMAIN customFilters |-> customFilters[n].NoopFunc]]
  ELSE [ok |-> TRUE, filters |-> NoMap]

\* "Register custom filter functions": [ok, filters]
RegisterCustomFilters(opts) ==
  IF opts.CustomFilterNoops
  THEN [ok |-> TRUE,
        filters |-> [n \in DOMAIN customFilters |-> customFilters[n].NoopFunc]]
  ELSE IF opts.CustomFilters /= ""
  THEN RegisterNamed(Split(opts.CustomFilters, ","), NoMap)
  ELSE [ok |-> TRUE, filters |-> NoMap]

\* "Determine mode of operations": [ok, fileFormat, inputSource, log]
ModeOfOperation(opts) ==
  LET Mode(f, src) ==
        IF f \notin DOMAIN dataFormats
        THEN [ok |-> FALSE, fileFormat |-> "TypeUnknown", inputSource |-> "SourceEnv",
              log |-> IF opts.Format = FormatAuto THEN "Unrecognized file extension"
                      ELSE "Unsupported input format"]
        ELSE IF opts.UseEnvKey /\ opts.DataFile = ""
        THEN [ok |-> FALSE, fileFormat |-> dataFormats[f], inputSource |-> src,
              log |-> "--use-env-key is incompatible with stdin file input."]
        ELSE [ok |-> TRUE, fileFormat |-> dataFormats[f],
              inputSource |-> IF opts.UseEnvKey THEN "SourceEnvKey" ELSE src, log |-> ""]
  IN CASE opts.Format = FormatAuto /\ opts.DataFile = "" -> Mode("env", "SourceEnv")
       [] opts.Format = FormatAuto /\ opts.DataFile /= "" ->
            Mode(ExtWithoutDot(opts.DataFile), "SourceFile")
       [] opts.Format /= FormatAuto /\ opts.Format /= "" /\ opts.DataFile = "" ->
            Mode(opts.Format, "SourceStdin")
       [] OTHER -> Mode(opts.Format, "SourceFile")

\* readRawInput(env, stdIn, name, source): [ok, data]; readOk tells whether
\* io.ReadAll or os.ReadFile can read what is there. The default branch of
\* the switch wraps a nil error: it returns no data and no error
readRawInput(e, in, name, source, wd, dsk, readOk) ==
  CASE source = "SourceStdin" ->
         IF readOk THEN [ok |-> TRUE, data |-> in] ELSE [ok |-> FALSE, data |-> ""]
    [] source = "SourceFile" ->
         IF readOk /\ Abs(wd, name) \in DOMAIN dsk
         THEN [ok |-> TRUE, data |-> dsk[Abs(wd, name)]]
         ELSE [ok |-> FALSE, data |-> ""]
    [] source = "SourceEnvKey" ->
         [ok |-> TRUE, data |-> IF name \in DOMAIN e THEN e[name] ELSE ""]
    [] OTHER -> [ok |-> TRUE, data |-> ""]

\* the environment as input data
EnvData(e) == [k \in DOMAIN e |-> StrV(e[k])]

\* "Get the input context": [status, err, data]; status is "ok", "error"
\* (Entrypoint returns 1) or "panic"; err.log is the last message logged for
\* the error
InputContext(opts, format, source, e, in, wd, dsk, readOk) ==
  LET raw == readRawInput(e, in, opts.DataFile, source, wd, dsk, readOk)
      ParseError == "Error parsing input data:"
      ReadFailed(log) == [status |-> "error",
                          err |-> [NoErr EXCEPT !.Reason = "readRawInput", !.log = log],
                          data |-> NoMap]
      Logged(r) == IF r.status = "error" THEN [r EXCEPT !.err.log = ParseError] ELSE r
      Decoded(r) == [status |-> IF r.ok THEN "ok" ELSE "error",
                     err |-> IF r.ok THEN NoErr
                             ELSE [NoErr EXCEPT !.Reason = "unmarshal", !.log = ParseError],
                     data |-> r.data]
  IN CASE format = "TypeEnv" /\ source = "SourceEnv" ->
            [status |-> "ok", err |-> NoErr, data |-> EnvData(e)]
       [] format = "TypeEnv" /\ source /= "SourceEnv" ->
            IF raw.ok THEN Logged(DecodeEnv(raw.data)) ELSE ReadFailed(ParseError)
       [] format = "TypeYAML" ->
            IF raw.ok THEN Decoded(DecodeYaml(raw.data)) ELSE ReadFailed("Could not read data")
       [] format = "TypeJSON" ->
            IF raw.ok THEN Decoded(DecodeJson(raw.data)) ELSE ReadFailed("Could not read data")
       [] OTHER -> [status |-> "error", err |-> [NoErr EXCEPT !.log = "Unknown input format."],
                    data |-> NoMap]

\* the logical key/value pairs given to a run
PairSets ==
  { <<>>,
    << <<"name", StrV("Sally")>> >>,
    << <<"name", StrV("a b")>>, <<"n", IntV(1)>> >>,
    << <<"n", StrV("1")>> >> }

\* input texts that were not written from pairs
RawTexts ==
  { "broken", "name=Sally\nbroken\n", "name=\nbroken\n", "name=a b\n", "name='Sally\nn=1", "\n" }

\* the input of a run: the pairs it was written from and the text
InputTexts ==
  { [kvs |-> kvs, text |-> Doc(f, kvs)] : kvs \in PairSets, f \in {"TypeEnv", "TypeJSON", "TypeYAML"} }
  \cup { [kvs |-> <<>>, text |-> t] : t \in RawTexts }

\* the environment of every run, without the key that may hold input text
BaseEnv == ("name" :> "Env") @@ ("user" :> "root") @@ ("bad-key" :> "x")

\* the command lines of the runs: everything about input data and custom
\* filters, for one template written to standard output
LaunchOptions ==
  { [FilenameSubstrDel |-> "", DirectoryMode |-> FALSE, TemplateFile |-> "t.p2",
     TarFile |-> "", OutputFile |-> "",
     Format |-> f, DataFile |-> d, UseEnvKey |-> k, IncludeEnv |-> i,
     CustomFilters |-> c, CustomFilterNoops |-> n] :
       f \in {"auto", "env", "envkey", "json", "yaml", "yml"},
       d \in {"", "data.env", "data.json", "data.yml", "DATA", "none.json"},
       k \in BOOLEAN, i \in BOOLEAN,
       c \in {"", "write_file", "make_dirs,write_file", "write_file,bogus"},
       n \in BOOLEAN }

\* what the template of these runs, "{{ name }} {{ n }}", writes
DataText(context) ==
  (IF "name" \in DOMAIN context THEN ValueString(context["name"]) ELSE "")
  \o " " \o (IF "n" \in DOMAIN context THEN ValueString(context["n"]) ELSE "")

\* the variables the start of Entrypoint leaves alone
renderVars == << tree, cwd, rootDir, templates, inputMaps, walkSets, engine, filterSet,
                 todo, ctx, headers, tarOpen, tarOut, openFiles, fsCalls, ret, nCalls,
                 faults, calls, failed >>

\* Entrypoint is called: the input text is on stdin, in the data file or under
\* the environment key, as the command line says
LaunchInit ==
  /\ options \in LaunchOptions
  /\ \E in \in InputTexts :
       /\ pairs = in.kvs
       /\ stdin = IF options.DataFile = "" THEN in.text ELSE ""
       /\ env = IF options.DataFile /= "" /\ options.UseEnvKey
                THEN (options.DataFile :> in.text) @@ BaseEnv ELSE BaseEnv
       /\ disk = IF options.DataFile \notin {"", "none.json"} /\ ~options.UseEnvKey
                 THEN (Abs(StartDir, options.DataFile) :> in.text) ELSE NoMap
  /\ dirs = StartDirs
  /\ filters = NoMap
  /\ inputSource = "SourceEnv"
  /\ fileFormat = "TypeUnknown"
  /\ inputErr = NoErr
  /\ inputData = NoMap
  /\ pc = "start"
  /\ exit = -1
  /\ cur = NoCur
  /\ tree = <<>> /\ cwd = StartDir /\ rootDir = "" /\ templates = NoMap
  /\ inputMaps = NoMap /\ walkSets = NoMap /\ engine = "none" /\ filterSet = OsFilterSet
  /\ todo = {} /\ ctx = NoMap /\ headers = <<>> /\ tarOpen = FALSE /\ tarOut = <<>>
  /\ openFiles = {} /\ fsCalls = <<>> /\ ret = NoRet /\ nCalls = 0 /\ faults = 0
  /\ calls = <<>> /\ failed = FALSE

\* "Filter invalid environment variables."
FilterEnvironment ==
  /\ pc = "start"
  /\ env' = OmitInvalid(env)
  /\ pc' = "register"
  /\ UNCHANGED << options, inputData, exit, cur, stdin, disk, dirs, filters, inputSource,
                  fileFormat, inputErr, pairs >>
  /\ UNCHANGED renderVars

\* "Register custom filter functions."
RegisterFilters ==
  /\ pc = "register"
  /\ LET r == RegisterCustomFilters(options)
     IN /\ filters' = r.filters
        /\ pc' = IF r.ok THEN "mode" ELSE "exit"
        /\ exit' = IF r.ok THEN exit ELSE 1
        /\ inputErr' = IF r.ok THEN inputErr
                       ELSE [NoErr EXCEPT !.log = "This version of p2 does not support the specified custom filter"]
  /\ UNCHANGED << options, inputData, cur, env, stdin, disk, dirs, inputSource, fileFormat, pairs >>
  /\ UNCHANGED renderVars

\* "Determine mode of operations"
DetermineMode ==
  /\ pc = "mode"
  /\ LET r == ModeOfOperation(options)
     IN /\ fileFormat' = r.fileFormat
        /\ inputSource' = r.inputSource
        /\ pc' = IF r.ok THEN "input" ELSE "exit"
        /\ exit' = IF r.ok THEN exit ELSE 1
        /\ inputErr' = [NoErr EXCEPT !.log = r.log]
  /\ UNCHANGED << options, inputData, cur, env, stdin, disk, dirs, filters, pairs >>
  /\ UNCHANGED renderVars

\* "Get the input context"; reading stdin or the data file that is there can
\* fail
GetInputContext ==
  /\ pc = "input"
  /\ \E readOk \in (IF \/ inputSource = "SourceStdin"
                       \/ inputSource = "SourceFile" /\ Abs(cwd, options.DataFile) \in DOMAIN disk
                    THEN MayFail ELSE {TRUE}) :
       /\ Fault(~readOk)
       /\ LET r == InputContext(options, fileFormat, inputSource, env, stdin, cwd, disk, readOk)
          IN /\ inputData' = r.data
             /\ inputErr' = r.err
             /\ pc' = CASE r.status = "ok" -> "include"
                        [] r.status = "error" -> "exit"
                        [] OTHER -> "panic"
             /\ exit' = CASE r.status = "ok" -> exit
                          [] r.status = "error" -> 1
                          [] OTHER -> 2
  /\ UNCHANGED << options, cur, env, stdin, disk, dirs, filters, inputSource, fileFormat, pairs >>
  /\ UNCHANGED << tree, cwd, rootDir, templates, inputMaps, walkSets, engine, filterSet,
                  todo, ctx, headers, tarOpen, tarOut, openFiles, fsCalls, ret, nCalls,
                  calls, failed >>

\* a merge in which the supplied data win over the environment
IncludeEnvironmentUnder ==
  /\ pc = "include"
  /\ inputData' = IF options.IncludeEnv THEN inputData @@ EnvData(env) ELSE inputData
  /\ pc' = "ready"
  /\ UNCHANGED << options, exit, cur, env, stdin, disk, dirs, filters, inputSource, fileFormat,
                  inputErr, pairs >>
  /\ UNCHANGED renderVars

\* "Including environment variables"
IncludeEnvironment ==
  /\ pc = "include"
  /\ inputData' = IF options.IncludeEnv THEN EnvData(env) @@ inputData ELSE inputData
  /\ pc' = "ready"
  /\ UNCHANGED << options, exit, cur, env, stdin, disk, dirs, filters, inputSource, fileFormat,
                  inputErr, pairs >>
  /\ UNCHANGED renderVars

\* the rest of Entrypoint for the one template of these runs: the template is
\* loaded, the output strategy chosen, ExecuteTemplate called once and the
\* status returned. Loading fails (the template cannot be read or parsed, the
\* working directory is unknown), the evaluator fails, or the output is
\* written; cur.buf is what was written to the output
RenderInputData ==
  /\ pc = "ready"
  /\ \E step \in {"load", "render", "ok"} :
       LET outputPath == SingleOutputPath(options, cwd)
           tmpl == [LoadTemplate(options.TemplateFile) EXCEPT
                      !.Globals = ("p2" :> MapV(SingleP2Ctx(RootDir(options, cwd)))) @@ @]
       IN /\ exit' = IF step = "ok" THEN 0 ELSE 1
          /\ cur' = IF step = "ok"
                    THEN [NoCur EXCEPT !.buf = DataText(ExecutionContext(tmpl, inputData))]
                    ELSE NoCur
          /\ IF step = "load"
             THEN UNCHANGED << rootDir, templates, inputMaps, engine, filterSet, calls, failed >>
             ELSE /\ rootDir' = RootDir(options, cwd)
                  /\ templates' = (outputPath :> tmpl)
                  /\ inputMaps' = (outputPath :> StdOutVal)
                  /\ engine' = EngineOf(options)
                  /\ filterSet' = [filterSet EXCEPT !.OutputFileName = outputPath]
                  /\ calls' = Append(calls, [outputPath |-> outputPath, prepared |-> TRUE,
                                             finalizer |-> "nil", finalizerRuns |-> 0,
                                             err |-> IF step = "ok" THEN "" ELSE "render",
                                             cwdBefore |-> cwd, cwdAfter |-> cwd])
                  /\ failed' = (step /= "ok")
  /\ pc' = "exit"
  /\ UNCHANGED << options, inputData, env, stdin, disk, dirs, filters, inputSource, fileFormat,
                  inputErr, pairs >>
  /\ UNCHANGED << tree, cwd, walkSets, todo, ctx, headers, tarOpen, tarOut, openFiles,
                  fsCalls, ret, nCalls, faults >>

LaunchNext ==
  \/ FilterEnvironment
  \/ RegisterFilters
  \/ DetermineMode
  \/ GetInputContext
  \/ IncludeEnvironment
  \/ RenderInputData

LaunchSpec == LaunchInit /\ [][LaunchNext]_vars

(***************************************************************************)
(* the scripting filters write_file and make_dirs                          *)
(***************************************************************************)
\* what a scripting filter returned: the value (NilV for nil) and the error
ScriptReturned(name, in, param, val, err) ==
  ret' = [filter |-> name, input |-> in, param |-> param, target |-> "",
          val |-> val, err |-> err]

\* a filterNoopPassthru that checks its parameter as the real filters do
filterNoopChecked(name, in, param) ==
  /\ IF IsString(param) THEN ScriptReturned(name, in, param, in, "")
     ELSE ScriptReturned(name, in, param, NilV, "Filter parameter must be of type 'string'.")
  /\ UNCHANGED << disk, dirs, fsCalls, faults >>

\* filterNoopPassthru(in, param)
filterNoopPassthru(name, in, param) ==
  /\ ScriptReturned(name, in, param, in, "")
  /\ UNCHANGED << disk, dirs, fsCalls, faults >>

\* a filterWriteFile that opens the file for appending
filterWriteFileAppend(name, in, param) ==
  IF ~IsString(in)
  THEN /\ ScriptReturned(name, in, param, NilV, "Filter input must be of type 'string'.")
       /\ UNCHANGED << disk, dirs, fsCalls, faults >>
  ELSE IF ~IsString(param)
  THEN /\ ScriptReturned(name, in, param, NilV, "Filter parameter must be of type 'string'.")
       /\ UNCHANGED << disk, dirs, fsCalls, faults >>
  ELSE LET path == Abs(cwd, param.s)
           old == IF path \in DOMAIN disk THEN disk[path] ELSE ""
           canOpen == param.s /= "" /\ path \notin dirs /\ Dir(path) \in dirs
       IN \E step \in (IF ~canOpen THEN {"open"}
                       ELSE {"ok"} \cup (IF faults < MaxFaults THEN {"open", "write"} ELSE {})) :
            /\ Fault(step /= "ok" /\ canOpen)
            /\ fsCalls' = fsCalls
            /\ dirs' = dirs
            /\ disk' = IF step = "open" THEN disk
                       ELSE (path :> (IF step = "ok" THEN old \o in.s ELSE old)) @@ disk
            /\ CASE step = "open" ->
                      ScriptReturned(name, in, param, NilV, "Could not open file for output")
                 [] step = "write" ->
                      ScriptReturned(name, in, param, NilV, "could not write file for output")
                 [] OTHER -> ScriptReturned(name, in, param, in, "")

\* filterWriteFile(in, param); step is how far it gets: OpenFile or WriteString
\* fails, or both succeed. OpenFile cannot open the empty name, a directory,
\* or a name in a directory that is not there
filterWriteFile(name, in, param) ==
  IF ~IsString(in)
  THEN /\ ScriptReturned(name, in, param, NilV, "Filter input must be of type 'string'.")
       /\ UNCHANGED << disk, dirs, fsCalls, faults >>
  ELSE IF ~IsString(param)
  THEN /\ ScriptReturned(name, in, param, NilV, "Filter parameter must be of type 'string'.")
       /\ UNCHANGED << disk, dirs, fsCalls, faults >>
  ELSE LET path == Abs(cwd, param.s)
           canOpen == param.s /= "" /\ path \notin dirs /\ Dir(path) \in dirs
       IN \E step \in (IF ~canOpen THEN {"open"}
                       ELSE {"ok"} \cup (IF faults < MaxFaults THEN {"open", "write"} ELSE {})) :
            /\ Fault(step /= "ok" /\ canOpen)
            /\ fsCalls' = fsCalls
            /\ dirs' = dirs
            /\ disk' = IF step = "open" THEN disk
                       ELSE (path :> (IF step = "ok" THEN in.s ELSE "")) @@ disk
            /\ CASE step = "open" ->
                      ScriptReturned(name, in, param, NilV, "Could not open file for output")
                 [] step = "write" ->
                      ScriptReturned(name, in, param, NilV, "could not write file for output")
                 [] OTHER -> ScriptReturned(name, in, param, in, "")

\* filterMakeDirs(in, param); os.MkdirAll is recorded with the calls of the
\* real filesystem. It cannot make the empty path, nor a path that is, or that
\* passes through, a regular file; it makes the path and what is missing above
filterMakeDirs(name, in, param) ==
  IF ~IsString(param)
  THEN /\ ScriptReturned(name, in, param, NilV, "filter parameter must be of type 'string'.")
       /\ UNCHANGED << disk, dirs, fsCalls, faults >>
  ELSE LET path == Abs(cwd, param.s)
            canMake == param.s /= "" /\ DirsOf(path) \cap DOMAIN disk = {}
       IN \E ok \in (IF canMake THEN MayFail ELSE {FALSE}) :
         /\ Fault(~ok /\ canMake)
         /\ disk' = disk
         /\ dirs' = IF ok THEN dirs \cup DirsOf(path) ELSE dirs
         /\ fsCalls' = Append(fsCalls, [op |-> "mkdirall", name |-> Abs(cwd, param.s),
                                        uid |-> -1, gid |-> -1, mode |-> OS_ALL_RWX])
         /\ IF ok THEN ScriptReturned(name, in, param, in, "")
            ELSE ScriptReturned(name, in, param, NilV, "could not create directories")

\* the values a template pipes into a scripting filter, and the parameters
ScriptInputs == { StrV("hi Sally"), StrV(""), IntV(7) }
ScriptParams == { StrV("sally.txt"), StrV("out/x.txt"), StrV(""), IntV(1) }

\* the evaluator applies the function the name is bound to
ApplyFilter(name, in, param) ==
  CASE filters[name] = "filterNoopPassthru" -> filterNoopPassthru(name, in, param)
    [] filters[name] = "filterWriteFile" -> filterWriteFile(name, in, param)
    [] filters[name] = "filterMakeDirs" -> filterMakeDirs(name, in, param)

\* the runs whose templates use the scripting filters: the registry is the
\* one the start of Entrypoint leaves for the command line
ScriptInit ==
  /\ options \in { o \in LaunchOptions :
                     /\ o.Format = "auto" /\ o.DataFile = "" /\ ~o.UseEnvKey /\ ~o.IncludeEnv
                     /\ RegisterCustomFilters(o).ok }
  /\ filters = RegisterCustomFilters(options).filters
  /\ env = OmitInvalid(BaseEnv)
  /\ stdin = "" /\ disk = NoMap /\ dirs = StartDirs /\ pairs = <<>>
  /\ inputSource = "SourceEnv" /\ fileFormat = "TypeEnv" /\ inputErr = NoErr
  /\ inputData = EnvData(env)
  /\ pc = "script"
  /\ exit = -1
  /\ cur = NoCur
  /\ tree = <<>> /\ cwd = StartDir /\ rootDir = "" /\ templates = NoMap
  /\ inputMaps = NoMap /\ walkSets = NoMap /\ engine = "none" /\ filterSet = OsFilterSet
  /\ todo = {} /\ ctx = NoMap /\ headers = <<>> /\ tarOpen = FALSE /\ tarOut = <<>>
  /\ openFiles = {} /\ fsCalls = <<>> /\ ret = NoRet /\ nCalls = 0 /\ faults = 0
  /\ calls = <<>> /\ failed = FALSE

\* what an invocation of a scripting filter leaves alone
ScriptFrame ==
  /\ nCalls' = nCalls + 1
  /\ UNCHANGED << options, tree, inputData, pc, cwd, rootDir, templates, inputMaps, walkSets,
                  engine, filterSet, todo, cur, ctx, headers, tarOpen, tarOut, openFiles,
                  calls, failed, exit, env, stdin, filters, inputSource, fileFormat,
                  inputErr, pairs >>

\* the template pipes a value into write_file
CallWriteFile ==
  /\ pc = "script" /\ nCalls < MaxFilterCalls
  /\ "write_file" \in DOMAIN filters
  /\ \E in \in ScriptInputs, param \in ScriptParams : ApplyFilter("write_file", in, param)
  /\ ScriptFrame

\* the template pipes a value into make_dirs
CallMakeDirs ==
  /\ pc = "script" /\ nCalls < MaxFilterCalls
  /\ "make_dirs" \in DOMAIN filters
  /\ \E in \in ScriptInputs, param \in ScriptParams : ApplyFilter("make_dirs", in, param)
  /\ ScriptFrame

ScriptNext == CallWriteFile \/ CallMakeDirs

ScriptSpec == ScriptInit /\ [][ScriptNext]_vars

(***************************************************************************)
(* FilterSet.FilterIndent                                                  *)
(***************************************************************************)
RECURSIVE JoinStrings(_, _)
\* strings.Join(elems, sep)
JoinStrings(elems, sep) ==
  IF elems = <<>> THEN ""
  ELSE IF Len(elems) = 1 THEN elems[1]
  ELSE elems[1] \o sep \o JoinStrings(Tail(elems), sep)

\* the result of a filter: it returns a value, returns an error, or panics
FilterResult(status, val, err) == [status |-> status, val |-> val, err |-> err]

\* FilterIndent that leaves empty lines as they are
FilterIndentSkipEmpty(in, param) ==
  IF ~IsString(in)
  THEN FilterResult("error", NilV, "filter input must be of type 'string'.")
  ELSE IF ~IsString(param) /\ ~IsInteger(param)
  THEN FilterResult("error", NilV, "filter param must be of type 'string'.")
  ELSE IF IsInteger(param) /\ param.i < 0
  THEN FilterResult("panic", NilV, "strings: negative Repeat count")
  ELSE LET indent == IF IsString(param) THEN param.s ELSE Spaces(param.i)
           splitStr == Split(in.s, "\n")
       IN FilterResult("ok",
                       StrV(JoinStrings([idx \in 1..Len(splitStr) |->
                                           IF splitStr[idx] = "" THEN ""
                                           ELSE indent \o splitStr[idx]], "\n")),
                       "")

\* FilterIndent(in, param); strings.Repeat panics on a negative count
FilterIndent(in, param) ==
  IF ~IsString(in)
  THEN FilterResult("error", NilV, "filter input must be of type 'string'.")
  ELSE IF ~IsString(param) /\ ~IsInteger(param)
  THEN FilterResult("error", NilV, "filter param must be of type 'string'.")
  ELSE IF IsInteger(param) /\ param.i < 0
  THEN FilterResult("panic", NilV, "strings: negative Repeat count")
  ELSE LET indent == IF IsString(param) THEN param.s ELSE Spaces(param.i)
           splitStr == Split(in.s, "\n")
       IN FilterResult("ok",
                       StrV(JoinStrings([idx \in 1..Len(splitStr) |-> indent \o splitStr[idx]],
                                        "\n")),
                       "")

\* the values a template pipes into indent, and the parameters
IndentInputs == { StrV("a\n\nb"), StrV(""), StrV("x\n"), StrV("one"), IntV(5) }
IndentParams == { IntV(0), IntV(1), IntV(2), IntV(-1), StrV("> "), NilV }

\* a template about to evaluate its indent filters
IndentInit ==
  /\ NoLaunch
  /\ options \in { o \in OptionSets : ~o.DirectoryMode /\ o.TarFile = "" /\ o.OutputFile = "" }
  /\ inputData = NoMap
  /\ pc = "indent"
  /\ exit = -1
  /\ cur = NoCur
  /\ tree = <<>> /\ cwd = StartDir /\ rootDir = "" /\ templates = NoMap
  /\ inputMaps = NoMap /\ walkSets = NoMap /\ engine = "none" /\ filterSet = OsFilterSet
  /\ todo = {} /\ ctx = NoMap /\ headers = <<>> /\ tarOpen = FALSE /\ tarOut = <<>>
  /\ openFiles = {} /\ fsCalls = <<>> /\ ret = NoRet /\ nCalls = 0 /\ faults = 0
  /\ calls = <<>> /\ failed = FALSE

\* the template pipes a value, or what the indent before it returned, into
\* indent; a panic ends the process
CallIndent ==
  /\ pc = "indent" /\ nCalls < MaxFilterCalls
  /\ \E in \in IndentInputs \cup (IF ret.filter = "indent" /\ ret.err = "" THEN {ret.val} ELSE {}),
        param \in IndentParams :
       LET r == FilterIndent(in, param)
       IN /\ ret' = [filter |-> "indent", input |-> in, param |-> param, target |-> "",
                     val |-> r.val, err |-> r.err]
          /\ pc' = IF r.status = "panic" THEN "panic" ELSE pc
          /\ exit' = IF r.status = "panic" THEN 2 ELSE exit
  /\ nCalls' = nCalls + 1
  /\ UNCHANGED << options, tree, inputData, cwd, rootDir, templates, inputMaps, walkSets,
                  engine, filterSet, todo, cur, ctx, headers, tarOpen, tarOut, openFiles,
                  fsCalls, faults, calls, failed >>
  /\ UNCHANGED launchVars

IndentNext == CallIndent

IndentSpec == IndentInit /\ [][IndentNext]_vars

(***************************************************************************)
(* The claims                                                              *)
(***************************************************************************)
P2Fields == {"OutputPath", "OutputName", "OutputDir", "OutputRelPath", "OutputRelDir"}

\* the templates have been loaded (rootDir is set by the loading)
Loaded == rootDir /= ""

\* the ExecuteTemplate calls made for the output path p
CallsFor(p) == { i \in 1..Len(calls) : calls[i].outputPath = p }

\* C1: every ExecuteTemplate call whose PrepareOutput succeeded with a non-nil
\* finalizer has invoked that finalizer exactly once when it returns, also when
\* the evaluator returned an error
C1_FinalizerRunsOnce ==
  \A i \in 1..Len(calls) :
    (calls[i].prepared /\ calls[i].finalizer /= "nil") => calls[i].finalizerRuns = 1

\* C2: in directory mode, with no failure of the operating system, the working
\* directory after every ExecuteTemplate call whose PrepareOutput succeeded is
\* the working directory before the call, whether its render succeeded or failed
C2_WorkDirRestored ==
  (engine = "dir" /\ faults = 0) =>
    \A i \in 1..Len(calls) : calls[i].prepared => calls[i].cwdAfter = calls[i].cwdBefore

\* C3: in tar mode SetOwner, SetGroup and SetMode never call the chown or chmod
\* of the real filesystem
C3_TarFiltersLeaveFilesystem ==
  engine = "tar" => fsCalls = <<>>

\* C4: in directory mode the template being rendered sees, under p2, the
\* OutputRelPath that is its output path relative to the output root, and the
\* OutputPath that is its absolute output path
C4_DirectoryP2Paths ==
  (engine = "dir" /\ pc = "render" /\ "p2" \notin DOMAIN inputData) =>
    /\ "p2" \in DOMAIN ctx
    /\ ctx["p2"].kind = "map"
    /\ P2Fields \subseteq DOMAIN ctx["p2"].m
    /\ ctx["p2"].m["OutputRelPath"] = Rel(rootDir, cur.outputPath).path
    /\ ctx["p2"].m["OutputPath"] = cur.outputPath

\* C5: in every render of every output mode the context holds the key p2, a
\* map of strings with the five fields
C5_P2AlwaysPresent ==
  (pc = "render" /\ "p2" \notin DOMAIN inputData) =>
    /\ "p2" \in DOMAIN ctx
    /\ ctx["p2"].kind = "map"
    /\ DOMAIN ctx["p2"].m = P2Fields

\* C6: rendering the single template, the p2 fields hold the stdout sentinels
\* when the output goes to standard output, and the path, base name and
\* directory of the output file when it goes to a file (--output)
C6_SentinelsOnlyForStdout ==
  (pc = "render" /\ ~options.DirectoryMode /\ "p2" \notin DOMAIN inputData
     /\ engine \in {"stdout", "file"}) =>
    /\ "p2" \in DOMAIN ctx
    /\ ctx["p2"].kind = "map"
    /\ P2Fields \subseteq DOMAIN ctx["p2"].m
    /\ engine = "stdout" =>
         /\ ctx["p2"].m["OutputPath"] = StdOutVal
         /\ ctx["p2"].m["OutputName"] = StdOutVal
         /\ ctx["p2"].m["OutputRelPath"] = StdOutVal
         /\ ctx["p2"].m["OutputRelDir"] = "."
    /\ engine = "file" =>
         /\ ctx["p2"].m["OutputPath"] = cur.outputPath
         /\ ctx["p2"].m["OutputName"] = Base(cur.outputPath)
         /\ ctx["p2"].m["OutputDir"] = Dir(cur.outputPath)

\* C7: a filter invoked while the FilterSet points at the stdout sentinel
\* returns nil without an error, calls no chown or chmod and changes no header,
\* whatever its input
C7_StdoutFiltersAreNoOps ==
  [][ (filterSet.OutputFileName = StdOutVal /\ nCalls' = nCalls + 1) =>
        /\ ret'.err = ""
        /\ ret'.val = "nil"
        /\ fsCalls' = fsCalls
        /\ headers' = headers ]_vars

\* C7 happens: SetOwner was handed a value that is no string and no integer, and
\* SetMode a string that is no octal number, with the stdout sentinel as target
C7_Witness ==
  /\ pc = "unit"
  /\ ret.target = StdOutVal
  /\ \/ ret.filter = "SetOwner" /\ ret.input = NilV
     \/ ret.filter = "SetMode" /\ ret.input = StrV("ghost")

\* C8: when the render loop has ended, ExecuteTemplate has been called exactly
\* once for every loaded template, whatever the outcome of the other calls
C8_EveryTemplateAttemptedOnce ==
  (pc = "exit" /\ engine /= "none") =>
    /\ \A p \in DOMAIN templates : Cardinality(CallsFor(p)) = 1
    /\ Len(calls) = Cardinality(DOMAIN templates)

\* C8 happens: a first template failed (in preparation, render or finalizer) and
\* a second one was attempted after it
C8_Witness ==
  /\ pc = "exit"
  /\ Len(calls) = 2
  /\ calls[1].err \in {"prepare", "render", "finalizer"}
  /\ calls[2].outputPath /= calls[1].outputPath

\* C9 as stated: once the templates are loaded, Entrypoint returns 0 if and
\* only if no ExecuteTemplate call returned an error, and 1 otherwise
C9_ExitZeroIffNoError ==
  (pc = "exit" /\ Loaded) =>
    /\ exit \in {0, 1}
    /\ exit = 0 <=> \A i \in 1..Len(calls) : calls[i].err = ""

\* C9 amended: once the templates are loaded and the output strategy is
\* configured (in tar mode: the tar file is opened), Entrypoint returns 0 if
\* ExecuteTemplate returned no error for any template, and 1 otherwise
C9_ExitZeroIffNoErrorOnceConfigured ==
  (pc = "exit" /\ Loaded /\ engine /= "none") =>
    /\ exit \in {0, 1}
    /\ exit = 0 <=> \A i \in 1..Len(calls) : calls[i].err = ""
    /\ exit = 0 <=> \A p \in DOMAIN templates : \E i \in CallsFor(p) : calls[i].err = ""

\* C9 happens: the first template failed, the second succeeded, and Entrypoint
\* returned 1
C9_Witness ==
  /\ pc = "exit" /\ exit = 1
  /\ Len(calls) = 2
  /\ calls[1].err /= "" /\ calls[2].err = ""

\* the names the archive is to hold: the transformed relative path of every
\* template file, with the --output value as prefix
ExpectedTarNames ==
  { Join(options.OutputFile, transformFileName(tree[i], options)) : i \in 1..Len(tree) }

\* C10: after a directory-mode run with --tar in which every template succeeds,
\* the archive holds one regular-file entry for every template file found
\* under the template root, named by its transformed relative path with the
\* --output value as prefix
C10_OneTarEntryPerTemplateFile ==
  (pc = "exit" /\ engine = "tar" /\ options.DirectoryMode /\ exit = 0) =>
    /\ Len(tarOut) = Len(tree)
    /\ \A i \in 1..Len(tarOut) : tarOut[i].header.Typeflag = TypeReg
    /\ { tarOut[i].header.Name : i \in 1..Len(tarOut) } = ExpectedTarNames

\* the type flag, mode, uid and gid of a tar header
HeaderFields(h) == << h.Typeflag, h.Mode, h.Uid, h.Gid >>

\* C11 as stated: in a tar-mode run in which no template applies SetMode,
\* SetOwner or SetGroup, every header written has mode 0, uid 0, gid 0 and the
\* regular-file type flag
C11_TarHeaderZeroDefaults ==
  (engine = "tar" /\ nCalls = 0) =>
    \A i \in 1..Len(tarOut) : HeaderFields(tarOut[i].header) = << TypeReg, 0, 0, 0 >>

\* C11 amended: in tar mode every step that is no call of SetMode, SetOwner or
\* SetGroup leaves the type flag, mode, uid and gid of every pending header as
\* they are, sets up a new header with the regular-file type flag, the mode
\* OS_ALL_RWX, uid 0 and gid 0, and writes the pending header of the template
\* being finalized; so a template that applies none of the three filters is
\* written with the regular-file type flag, mode OS_ALL_RWX, uid 0 and gid 0
C11_TarHeaderDefaults ==
  [][ (engine = "tar" /\ nCalls' = nCalls) =>
        /\ Len(headers') >= Len(headers)
        /\ \A i \in 1..Len(headers) :
             HeaderFields(headers'[i]) = HeaderFields(headers[i])
        /\ \A i \in (Len(headers) + 1)..Len(headers') :
             HeaderFields(headers'[i]) = << TypeReg, OS_ALL_RWX, 0, 0 >>
        /\ \A i \in (Len(tarOut) + 1)..Len(tarOut') :
             HeaderFields(tarOut'[i].header) = HeaderFields(headers[cur.hdr]) ]_vars

\* C11 happens: a run of two templates has ended, the archive holds both, one
\* written with a header no filter touched and one whose mode SetMode changed
C11_Witness ==
  /\ pc = "exit" /\ engine = "tar"
  /\ Len(tarOut) = 2
  /\ \E i, j \in 1..2 :
       /\ HeaderFields(tarOut[i].header) = << TypeReg, OS_ALL_RWX, 0, 0 >>
       /\ tarOut[j].header.Mode = 420


\* the names --enable-filters lists
EnabledNames ==
  LET names == Split(options.CustomFilters, ",")
  IN IF options.CustomFilters = "" THEN {} ELSE { names[i] : i \in 1..Len(names) }

\* C12: once the custom filters are registered, neither flag leaves none of
\* them bound; --enable-noop-filters binds every custom filter to the no-op
\* whatever --enable-filters says; otherwise exactly the names listed by
\* --enable-filters are bound, each to its real implementation (a run that
\* lists an unknown name has stopped, with nothing but real implementations
\* of listed names bound); and a binding, once made, never changes.
C12_CustomFilterRegistration ==
  /\ [](pc \notin {"start", "register"} =>
          IF options.CustomFilterNoops
          THEN /\ DOMAIN filters = {"write_file", "make_dirs"}
               /\ \A n \in DOMAIN filters : filters[n] = "filterNoopPassthru"
          ELSE /\ DOMAIN filters \subseteq EnabledNames
               /\ \A n \in DOMAIN filters : filters[n] = customFilters[n].FilterFunc
               /\ (EnabledNames \subseteq DOMAIN customFilters => DOMAIN filters = EnabledNames)
               /\ (EnabledNames \subseteq DOMAIN customFilters <=> inputErr.log /= "This version of p2 does not support the specified custom filter"))
  /\ [][\A n \in DOMAIN filters : n \in DOMAIN filters' /\ filters'[n] = filters[n]]_vars

C12_Witness ==
  /\ pc = "ready"
  /\ options.CustomFilterNoops /\ options.CustomFilters = "write_file"
  /\ filters = ("write_file" :> "filterNoopPassthru") @@ ("make_dirs" :> "filterNoopPassthru")


\* a step that invokes the scripting filter of that name
ScriptCall(name) == nCalls' = nCalls + 1 /\ ret'.filter = name

\* C13: a call of the real write_file that succeeds was given a string and a
\* string file name, returns its input unchanged and leaves the named file
\* holding exactly that input, whatever the file held before, and every other
\* file as it was; no other step changes a file unless it is a write_file
\* call that failed while writing.  Hence after any sequence of successful
\* calls each written file holds the content of the last call that named it.
C13_WriteFileStoresContent ==
  [][ IF ScriptCall("write_file") /\ filters["write_file"] = "filterWriteFile"
      THEN IF ret'.err = ""
           THEN /\ IsString(ret'.input) /\ IsString(ret'.param)
                /\ ret'.val = ret'.input
                /\ disk' = (Abs(cwd, ret'.param.s) :> ret'.input.s) @@ disk
           ELSE \/ disk' = disk
                \/ /\ ret'.err = "could not write file for output"
                   /\ disk' = (Abs(cwd, ret'.param.s) :> "") @@ disk
      ELSE disk' = disk ]_vars

C13_Witness ==
  /\ nCalls = 2
  /\ filters["write_file"] = "filterWriteFile"
  /\ ret.filter = "write_file" /\ ret.err = "" /\ ret.param = StrV("sally.txt")
  /\ disk = (Abs(cwd, "sally.txt") :> "hi Sally") @@ (Abs(cwd, "out/x.txt") :> "")


\* C14: a call of write_file or make_dirs bound to the no-op returns its
\* input unchanged, without error, for every input and parameter, and makes
\* no change to any file and no call of the filesystem.
C14_NoopFiltersPassThrough ==
  [][ \A name \in {"write_file", "make_dirs"} :
        (ScriptCall(name) /\ filters[name] = "filterNoopPassthru") =>
          /\ ret'.val = ret'.input /\ ret'.err = ""
          /\ disk' = disk /\ fsCalls' = fsCalls /\ faults' = faults ]_vars

\* the no-op accepted a value and a parameter the real write_file rejects
C14_Witness ==
  /\ nCalls = 2
  /\ options.CustomFilterNoops
  /\ filters = ("write_file" :> "filterNoopPassthru") @@ ("make_dirs" :> "filterNoopPassthru")
  /\ ret.filter = "write_file" /\ ret.input = IntV(7) /\ ret.param = IntV(1)
  /\ ret.val = IntV(7) /\ ret.err = ""
  /\ disk = NoMap /\ fsCalls = <<>>


\* the text the run reads its input data from
RawInput == readRawInput(env, stdin, options.DataFile, inputSource, cwd, disk, faults = 0).data

\* the logical key/value pairs as a context
PairData(kvs) ==
  [k \in { kvs[i][1] : i \in 1..Len(kvs) } |->
     (CHOOSE v \in { kvs[i][2] : i \in 1..Len(kvs) } :
        \E i \in 1..Len(kvs) : kvs[i] = << k, v >>)]

\* C15: a run that reads the pairs written as env-lines, as JSON or as YAML,
\* from a file, from stdin or from an environment key, and renders the
\* template, writes what the template gives for the pairs themselves
\* (under the environment, where --include-env is given): the same bytes for
\* every format and route.
C15_SameOutputForSameData ==
  (/\ pc = "exit" /\ exit = 0
   /\ inputSource /= "SourceEnv"
   /\ RawInput = Doc(fileFormat, pairs))
    => cur.buf = DataText(IF options.IncludeEnv
                          THEN EnvData(env) @@ PairData(pairs) ELSE PairData(pairs))

\* the same pairs rendered from JSON and from env-lines
C15_JsonRun ==
  /\ pc = "exit" /\ exit = 0 /\ fileFormat = "TypeJSON" /\ inputSource = "SourceFile"
  /\ ~options.IncludeEnv
  /\ pairs = << <<"name", StrV("a b")>>, <<"n", IntV(1)>> >>
  /\ RawInput = JsonDoc(pairs)
  /\ cur.buf = "a b 1.000000"


\* the lines of the input text that hold no '='
LinesWithoutEquals ==
  LET lines == ScanLines(RawInput)
  IN { i \in 1..Len(lines) : Len(SplitN2(lines[i], "=")) /= 2 }

\* C16: once a run whose command line is accepted has loaded env-format text
\* from a file, stdin or an environment key, and the text holds a line
\* without '=', the run has stopped with
\* status 1 on an EnvironmentVariablesError whose RawEnvVar is the first such
\* line, that line is no key of the input data, and nothing was rendered.
C16_LineWithoutEqualsFails ==
  (/\ pc \notin {"start", "register", "mode", "input"}
   /\ RegisterCustomFilters(options).ok /\ ModeOfOperation(options).ok
   /\ fileFormat = "TypeEnv" /\ inputSource /= "SourceEnv"
   /\ LinesWithoutEquals /= {})
    => LET lines == ScanLines(RawInput)
           first == CHOOSE i \in LinesWithoutEquals : \A j \in LinesWithoutEquals : i <= j
       IN /\ pc = "exit" /\ exit = 1
          /\ inputErr.Reason = "Could not find an equals value to split on"
          /\ inputErr.RawEnvVar = lines[first]
          /\ lines[first] \notin DOMAIN inputData
          /\ cur.buf = ""


\* C17: a run given --format=envkey and --input naming an environment key,
\* once its mode of operation is determined, reads its data from the value of
\* that key, as with --use-env-key, and has not stopped because of the format.
C17_FormatEnvKeyReadsEnvKey ==
  (/\ pc \notin {"start", "register", "mode"}
   /\ RegisterCustomFilters(options).ok
   /\ options.Format = "envkey" /\ options.DataFile /= "")
    => /\ inputSource = "SourceEnvKey"
       /\ inputErr.log /= "Unsupported input format"


\* the numbers of spaces asked of indent
IndentCounts == { p.i : p \in { q \in IndentParams : IsInteger(q) /\ q.i >= 0 } }

\* C18: indent applied with a number N of spaces to a string returns, without
\* error, a string of as many lines, each of them, the empty ones included,
\* the line of the input after exactly N spaces; and indenting the result
\* again by M gives what indenting the input once by N + M gives.
C18_IndentPrefixesEveryLine ==
  (/\ ret.filter = "indent"
   /\ IsString(ret.input) /\ IsInteger(ret.param) /\ ret.param.i >= 0)
    => LET N == ret.param.i
           lines == Split(ret.input.s, "\n")
           out == Split(ret.val.s, "\n")
       IN /\ ret.err = "" /\ IsString(ret.val) /\ pc = "indent"
          /\ Len(out) = Len(lines)
          /\ \A i \in 1..Len(lines) : out[i] = Spaces(N) \o lines[i]
          /\ \A M \in IndentCounts :
               FilterIndent(ret.val, IntV(M)) = FilterIndent(ret.input, IntV(N + M))

\* a three-line string with an empty line, indented by 1 and then by 2
C18_Witness ==
  /\ nCalls = 2
  /\ ret.filter = "indent" /\ ret.param = IntV(2)
  /\ ret.input = StrV(" a\n \n b")
  /\ ret.val = StrV("   a\n   \n   b")


\* the input data as decoded from the data source, before any merge
DecodedData == InputContext(options, fileFormat, inputSource, env, stdin, cwd, disk, faults = 0).data

\* C19: with --include-env, the data handed to the template hold every key of
\* the decoded input and every key of the environment; a key of the
\* environment has the environment's value, whether or not the input has it
\* too, and a key of the input alone keeps its decoded value; the output is
\* the template's text for these data.
C19_IncludeEnvOverridesData ==
  (/\ options.IncludeEnv
   /\ pc = "ready" \/ (pc = "exit" /\ exit = 0))
    => /\ DOMAIN inputData = DOMAIN DecodedData \cup DOMAIN env
       /\ \A k \in DOMAIN env : inputData[k] = StrV(env[k])
       /\ \A k \in DOMAIN DecodedData \ DOMAIN env : inputData[k] = DecodedData[k]
       /\ (pc = "exit" => cur.buf = DataText(inputData))

\* name is in the JSON data and in the environment, n in the data alone,
\* user in the environment alone
C19_Witness ==
  /\ pc = "exit" /\ exit = 0
  /\ options.IncludeEnv /\ fileFormat = "TypeJSON"
  /\ DecodedData = ("name" :> StrV("a b")) @@ ("n" :> FloatV(1))
  /\ env["name"] = "Env"
  /\ inputData = ("name" :> StrV("Env")) @@ ("n" :> FloatV(1)) @@ ("user" :> StrV("root"))
  /\ cur.buf = "Env 1.000000"


\* the keys of the environment Entrypoint is called with that are no identifiers
InvalidEnvKeys ==
  { k \in DOMAIN BaseEnv \cup (IF options.UseEnvKey /\ options.DataFile /= ""
                               THEN {options.DataFile} ELSE {}) : ~MatchIdentifier(k) }

\* a run that has ended did so with status 0, or with status 1 for no other
\* reason than its template: it could not be loaded (no call of
\* ExecuteTemplate) or the evaluator failed
EndedOnTemplateOnly ==
  /\ pc = "exit" /\ inputErr = NoErr
  /\ exit = 0 \/ (exit = 1 /\ (calls = <<>> \/ calls[Len(calls)].err = "render"))

\* C20: after the first step of Entrypoint the environment holds no key that
\* is not an identifier, and the input data never hold one; a run whose
\* command line is accepted and whose data source is the environment gets its
\* input data without failing, and no run whose input data were decoded fails
\* on them afterwards, with or without the merge of --include-env: such a run
\* ends with status 0 unless its template cannot be loaded or evaluated.
C20_InvalidEnvKeysDropped ==
  /\ pc /= "start" =>
       /\ \A k \in DOMAIN env : MatchIdentifier(k)
       /\ DOMAIN env = { k \in DOMAIN BaseEnv \cup DOMAIN env : MatchIdentifier(k) }
  /\ \A k \in InvalidEnvKeys : k \notin DOMAIN inputData
  /\ (/\ RegisterCustomFilters(options).ok /\ ModeOfOperation(options).ok
      /\ ModeOfOperation(options).inputSource = "SourceEnv"
      /\ pc \in {"exit", "panic"})
       => EndedOnTemplateOnly /\ DOMAIN inputData = DOMAIN env
  /\ (/\ RegisterCustomFilters(options).ok /\ ModeOfOperation(options).ok
      /\ InputContext(options, fileFormat, inputSource, env, stdin, cwd, disk, faults = 0).status = "ok"
      /\ pc \in {"exit", "panic"})
       => EndedOnTemplateOnly

\* the environment was the data source and held the key bad-key
C20_Witness ==
  /\ pc = "exit" /\ exit = 0
  /\ inputSource = "SourceEnv"
  /\ "bad-key" \in InvalidEnvKeys
  /\ inputData = ("name" :> StrV("Env")) @@ ("user" :> StrV("root"))
  /\ cur.buf = "Env "


\* an ExecuteTemplate call is in flight: prepared and not yet returned
InFlight == pc \in {"render", "finalize"}

\* C21: a template's render starts only from the render loop with no other
\* call in flight, in the step that prepares its output; its finalizer starts
\* only after its own render; while a call is in flight no other template is
\* taken up and the only call that returns is the one in flight; and a call
\* with a finalizer returns success only out of its finalizer.
C21_OneRenderInFlight ==
  [][ /\ (pc' = "render" /\ pc /= "render") =>
           /\ pc = "loop" /\ cur = NoCur
           /\ cur'.outputPath \in todo /\ todo' = todo \ {cur'.outputPath}
           /\ \A i \in 1..Len(calls) : calls[i].outputPath /= cur'.outputPath
      /\ (pc' = "finalize" /\ pc /= "finalize") =>
           pc = "render" /\ cur'.outputPath = cur.outputPath
      /\ InFlight =>
           /\ todo' = todo
           /\ \/ calls' = calls /\ pc' \in {"render", "finalize"}
                            /\ cur'.outputPath = cur.outputPath
              \/ /\ Len(calls') = Len(calls) + 1
                 /\ SubSeq(calls', 1, Len(calls)) = calls
                 /\ calls'[Len(calls')].outputPath = cur.outputPath
                 /\ pc' = "loop" /\ cur' = NoCur
                 /\ (calls'[Len(calls')].finalizer /= "nil" /\ calls'[Len(calls')].err = "")
                      => pc = "finalize" /\ calls'[Len(calls')].finalizerRuns = 1
      /\ (~InFlight /\ Len(calls') > Len(calls)) => ~calls'[Len(calls')].prepared ]_vars

\* a second template is being finalized after the first returned
C21_Witness ==
  /\ pc = "finalize" /\ engine = "dir"
  /\ Len(calls) = 1 /\ calls[1].finalizerRuns = 1 /\ calls[1].err = ""
  /\ cur.outputPath /= calls[1].outputPath
  /\ todo = {}


\* C22: while the evaluator renders the template of output path P, and so at
\* every invocation of a filter, FilterSet.OutputFileName is P, and P is a
\* key of the loaded templates, whichever templates were rendered before and
\* however they ended.
C22_FilterSetPointsAtCurrentOutput ==
  pc = "render" =>
    /\ cur.outputPath \in DOMAIN templates
    /\ filterSet.OutputFileName = cur.outputPath
    /\ (ret.filter /= "none" /\ ret.err = "" /\ ret.target /= cur.outputPath)
         => \E i \in 1..Len(calls) : calls[i].outputPath = ret.target

\* the second template of a batch is rendered after the first failed in a
\* filter that was pointed at the first
C22_Witness ==
  /\ pc = "render" /\ Len(calls) = 1
  /\ calls[1].err = "render" /\ ret.err /= "" /\ ret.target = calls[1].outputPath
  /\ cur.outputPath /= calls[1].outputPath
  /\ filterSet.OutputFileName = cur.outputPath


\* the call ran its finalizer and the finalizer returned no error
FinalizedOk(c) == c.finalizerRuns = 1 /\ c.err = ""

\* the entry was written whole: header and body
IsComplete(e) == e.complete

\* what the template of output path p renders to
RenderedText(p) == RenderText(ExecutionContext(templates[p], inputData))

\* C23: in tar mode the entries written whole are, in order, those of the
\* calls whose finalizer succeeded, in the order the finalizers ran; each has
\* the name of its template's output path, the bytes its template rendered as
\* its body, and a Size that is the number of those bytes; only the last
\* entry of the archive can lack its body (the write failed), and nothing is
\* written after it.
C23_TarEntriesInFinalizeOrder ==
  engine = "tar" =>
    LET done == SelectSeq(calls, FinalizedOk)
        whole == SelectSeq(tarOut, IsComplete)
    IN /\ Len(whole) = Len(done)
       /\ \A i \in 1..Len(whole) :
            /\ whole[i].header.Name =
                 Join(options.OutputFile, Rel(rootDir, done[i].outputPath).path)
            /\ whole[i].body = RenderedText(done[i].outputPath)
            /\ whole[i].header.Size = Len(whole[i].body)
       /\ \A i \in 1..(Len(tarOut) - 1) : tarOut[i].complete
       /\ \A i \in 1..Len(tarOut) : ~tarOut[i].complete => tarOut[i].body = ""

\* two templates of a directory were written to the archive, one after the
\* other, each with the eight bytes it rendered
C23_Witness ==
  /\ pc = "exit" /\ engine = "tar" /\ options.DirectoryMode
  /\ Len(tarOut) = 2 /\ Len(calls) = 2
  /\ tarOut[1].header.Name /= tarOut[2].header.Name
  /\ \A i \in 1..2 : /\ tarOut[i].complete /\ tarOut[i].header.Size = 8
                     /\ tarOut[i].body = "hi Sally"
                     /\ tarOut[i].header.Name =
                          Join(options.OutputFile, Rel(rootDir, calls[i].outputPath).path)


\* the uid, gid and mode of a tar header
OwnerAndMode(h) == << h.Uid, h.Gid, h.Mode >>

\* C24: in tar mode the uid, gid and mode of a header change only in the
\* invocation of a filter, and then only those of the header of the template
\* being rendered; the entry a finalizer writes carries the uid, gid and mode
\* its own header has at that time, and an entry once written never changes.
C24_TarHeadersIndependent ==
  [][ engine = "tar" =>
        /\ Len(headers') >= Len(headers) /\ Len(tarOut') >= Len(tarOut)
        /\ \A i \in 1..Len(headers) :
             OwnerAndMode(headers'[i]) /= OwnerAndMode(headers[i])
               => /\ pc = "render" /\ nCalls' = nCalls + 1
                  /\ i = cur.hdr
                  /\ ret'.target = cur.outputPath
        /\ \A i \in 1..Len(tarOut) : tarOut'[i] = tarOut[i]
        /\ \A i \in (Len(tarOut) + 1)..Len(tarOut') :
             /\ pc = "finalize"
             /\ OwnerAndMode(tarOut'[i].header) = OwnerAndMode(headers[cur.hdr])
             /\ tarOut'[i].header.Name = headers[cur.hdr].Name ]_vars

\* the second template of an archive set its mode to 0644 and the entry of
\* the first, written before, has the mode it was given
C24_Witness ==
  /\ pc = "exit" /\ engine = "tar"
  /\ Len(tarOut) = 2 /\ Len(headers) = 2
  /\ tarOut[2].header.Mode = 420 /\ headers[2].Mode = 420
  /\ tarOut[1].header.Mode = OS_ALL_RWX /\ headers[1].Mode = OS_ALL_RWX
  /\ ret.filter = "SetMode" /\ ret.err = "" /\ ret.target = calls[2].outputPath


\* the calls of the real filesystem a step adds
NewFsCalls == { fsCalls'[i] : i \in (Len(fsCalls) + 1)..Len(fsCalls') }

\* C25: an invocation of SetOwner makes no call but a chown of the current
\* target with gid -1 and leaves the Gid and the Mode of every header as
\* they were; an invocation of SetGroup makes no call but a chown of the
\* current target with uid -1 and leaves the Uid and the Mode of every header
\* as they were.
C25_OwnerAndGroupApart ==
  [][ nCalls' = nCalls + 1 =>
        /\ Len(fsCalls') >= Len(fsCalls) /\ SubSeq(fsCalls', 1, Len(fsCalls)) = fsCalls
        /\ Len(headers') = Len(headers)
        /\ ret'.filter = "SetOwner" =>
             /\ \A c \in NewFsCalls :
                  c.op = "chown" /\ c.gid = -1 /\ c.name = filterSet.OutputFileName
                    /\ c.uid = OwnerUid(ret'.input).id
             /\ \A i \in 1..Len(headers) :
                  headers'[i].Gid = headers[i].Gid /\ headers'[i].Mode = headers[i].Mode
        /\ ret'.filter = "SetGroup" =>
             /\ \A c \in NewFsCalls :
                  c.op = "chown" /\ c.uid = -1 /\ c.name = filterSet.OutputFileName
                    /\ c.gid = GroupGid(ret'.input).id
             /\ \A i \in 1..Len(headers) :
                  headers'[i].Uid = headers[i].Uid /\ headers'[i].Mode = headers[i].Mode ]_vars

\* with the tar closures in place SetOwner set the Uid of the header and left
\* its Gid, and a SetGroup after it left the Uid
C25_Witness ==
  /\ pc = "unit" /\ nCalls = 2
  /\ filterSet.Chown.kind = "tar"
  /\ ret.filter = "SetGroup" /\ ret.err = "" /\ ret.input = StrV("app")
  /\ headers[1].Uid = 1001 /\ headers[1].Gid = 0
  /\ fsCalls = << [op |-> "chown", name |-> "/work/out.txt", uid |-> -1, gid |-> 1002,
                   mode |-> 0] >>


\* C26: while a template is rendered to standard output the FilterSet points
\* at the stdout sentinel, and in such a run no chown or chmod is attempted
\* and no filter returns an error for want of a file.
C26_StdoutTargetIsSentinel ==
  engine = "stdout" =>
    /\ pc = "render" => filterSet.OutputFileName = StdOutVal
    /\ fsCalls = <<>>
    /\ ret.err \notin {"chown", "chmod"}


\* C27: in directory mode every ExecuteTemplate call whose PrepareOutput
\* returned an error left the working directory what it was before the call.
C27_FailedPrepareKeepsWorkDir ==
  engine = "dir" =>
    \A i \in 1..Len(calls) :
      ~calls[i].prepared => calls[i].cwdAfter = calls[i].cwdBefore


RECURSIVE TarBlocks(_)
\* what the tar writer has handed to its output for the entries: a header
\* block for each, and its body if the body was written and is not empty;
\* the end-of-archive trailer is two zero blocks, written by Close alone
TarBlocks(entries) ==
  IF entries = <<>> THEN <<>>
  ELSE << "header" >>
       \o (IF Head(entries).complete /\ Head(entries).body /= "" THEN << "data" >> ELSE <<>>)
       \o TarBlocks(Tail(entries))

\* the archive ends with the end-of-archive trailer
EndsWithTrailer(blocks) ==
  /\ Len(blocks) >= 2
  /\ blocks[Len(blocks)] = "zero" /\ blocks[Len(blocks) - 1] = "zero"

\* C28: when Entrypoint returns from a run in tar mode, the tar file it
\* opened is closed and the archive ends with the end-of-archive trailer.
C28_TarWriterClosed ==
  (pc = "exit" /\ engine = "tar") =>
    /\ ~tarOpen
    /\ EndsWithTrailer(TarBlocks(tarOut))


\* the template files the walk discovered
Discovered == { Join(options.TemplateFile, tree[i]) : i \in 1..Len(tree) }

\* C29: in directory mode, once the templates are loaded, every discovered
\* template file is the input of exactly one output path; and when the
\* render loop has ended, ExecuteTemplate has been called exactly once for
\* every discovered file.
C29_EveryTemplateOwnOutput ==
  (options.DirectoryMode /\ Loaded) =>
    /\ \A f \in Discovered :
         Cardinality({ p \in DOMAIN inputMaps : inputMaps[p] = f }) = 1
    /\ Cardinality(DOMAIN templates) = Len(tree)
    /\ (pc = "exit" /\ engine /= "none") =>
         \A f \in Discovered :
           Cardinality({ k \in 1..Len(calls) : inputMaps[calls[k].outputPath] = f }) = 1


\* the lines KEY= of the input text: an equals sign and no value after it
LinesWithEmptyValue ==
  LET lines == ScanLines(RawInput)
  IN { i \in 1..Len(lines) :
         Len(SplitN2(lines[i], "=")) = 2 /\ SplitN2(lines[i], "=")[2] = "" }

\* C30: a run whose command line is accepted and that has loaded env-format
\* text from a file, stdin or an environment key has not been aborted by a
\* panic; and when the text holds a line KEY= with an empty value, either the
\* empty string is stored under KEY or the run has stopped with status 1 on a
\* reported error.
C30_EnvParsingNeverAborts ==
  (/\ pc \notin {"start", "register", "mode", "input"}
   /\ RegisterCustomFilters(options).ok /\ ModeOfOperation(options).ok
   /\ fileFormat = "TypeEnv" /\ inputSource /= "SourceEnv")
    => /\ pc /= "panic"
       /\ \A i \in LinesWithEmptyValue :
            LET key == SplitN2(ScanLines(RawInput)[i], "=")[1]
            IN \/ key \in DOMAIN inputData /\ inputData[key] = StrV("")
               \/ pc = "exit" /\ exit = 1 /\ inputErr /= NoErr

====
